---- MODULE Spec2Model ----
(***************************************************************************)
(* A model of mysqlstmt's condition engine: Stmt.pickle,                   *)
(* Stmt.parameterize_values, WhereCondition (construction, predicate       *)
(* registration, rendering), WhereMixin (the statement-level WHERE API)    *)
(* and the part of Select.sql that renders the WHERE clause.               *)
(*                                                                         *)
(* SQL text is a sequence of tokens.  A token is a record [s, bind]: s is  *)
(* the token's text; bind is a history field that is <<v>> on a            *)
(* placeholder token standing for the bound value v and <<>> on every      *)
(* other token.  Python's f"{a} {b}" and str.join become concatenation of  *)
(* token sequences; the empty string is the empty sequence.                *)
(***************************************************************************)
EXTENDS Integers, Sequences, FiniteSets, TLC

VARIABLES
    stmts,  \* statement id -> the Select object's settings and WHERE root
    conds,  \* condition id -> the WhereCondition object's fields
    out     \* what the most recent call returned, when it was a call of sql()

vars == <<stmts, conds, out>>

(***************************************************************************)
(* Bounds of the model.                                                    *)
(***************************************************************************)
MaxBuild == 3
MaxKinds == 3
MaxValues == 1
MaxStmt == 4
MaxRaw == 3
MaxSink == 1
MaxNest == 5
MaxHeld == 4
MaxExpr == 4
MaxMap == 4
MaxCall == 5

(***************************************************************************)
(* Values (StmtPickleT and sequences of them).                             *)
(***************************************************************************)
Scalar(t, n, s) == [t |-> t, n |-> n, s |-> s, items |-> <<>>]
VNull == Scalar("null", 0, "")
VBool(b) == Scalar("bool", IF b THEN 1 ELSE 0, "")
VInt(n) == Scalar("int", n, "")
VStr(s) == Scalar("str", 0, s)
VList(xs) == [t |-> "seq", n |-> 0, s |-> "", items |-> xs]
\* a float of one decimal, kept in tenths: VFloat(15) is 1.5
VFloat(tenths) == Scalar("float", tenths, "")
\* datetime.datetime, datetime.date and datetime.time, kept as their fields
\* (integers, held in items)
VDateTime(y, mo, d, h, mi, sec) ==
    [t |-> "datetime", n |-> 0, s |-> "", items |-> <<VInt(y), VInt(mo), VInt(d), VInt(h), VInt(mi), VInt(sec)>>]
VDate(y, mo, d) ==
    [t |-> "date", n |-> 0, s |-> "", items |-> <<VInt(y), VInt(mo), VInt(d)>>]
VTime(h, mi, sec) ==
    [t |-> "time", n |-> 0, s |-> "", items |-> <<VInt(h), VInt(mi), VInt(sec)>>]
\* any other object, kept as what str() returns for it
VObject(s) == Scalar("object", 0, s)

\* isinstance(val, Sequence) and not isinstance(val, str)
IsSequence(v) == v.t = "seq"

\* An optional argument: None, or a given sequence.
None == [given |-> FALSE, items |-> <<>>]
Some(xs) == [given |-> TRUE, items |-> xs]

(***************************************************************************)
(* Tokens.                                                                 *)
(***************************************************************************)
T(s) == [s |-> s, bind |-> <<>>]
Hole(ph, v) == [s |-> ph, bind |-> <<v>>]
Words(ss) == [i \in DOMAIN ss |-> T(ss[i])]
Text(toks) == [i \in DOMAIN toks |-> toks[i].s]

\* Config.placeholder, and the disabled placeholder (None).
ConfigPlaceholder == "?"
NoPlaceholder == ""

(***************************************************************************)
(* Stmt.pickle: (text, can_paramize_val).                                  *)
(***************************************************************************)
\* %m, %d, %H, %M, %S: two digits; %Y: four digits (years from 1000 on)
Pad2(n) == IF n < 10 THEN "0" \o ToString(n) ELSE ToString(n)
\* strftime("%Y-%m-%d") and strftime("%H:%M:%S") of fields f[i], f[i+1], f[i+2]
FormatDate(f, i) ==
    ToString(f[i].n) \o "-" \o Pad2(f[i + 1].n) \o "-" \o Pad2(f[i + 2].n)
FormatTime(f, i) ==
    Pad2(f[i].n) \o ":" \o Pad2(f[i + 1].n) \o ":" \o Pad2(f[i + 2].n)
\* str() of a non-negative float of one decimal
FormatFloat(tenths) == ToString(tenths \div 10) \o "." \o ToString(tenths % 10)

pickle(val) ==
    CASE val.t = "null" -> [text |-> "NULL", can |-> FALSE]
      [] val.t = "bool" /\ val.n = 1 -> [text |-> "1", can |-> FALSE]
      [] val.t = "bool" /\ val.n = 0 -> [text |-> "0", can |-> FALSE]
      [] val.t = "str" -> [text |-> val.s, can |-> TRUE]
      [] val.t = "int" -> [text |-> ToString(val.n), can |-> FALSE]
      [] val.t = "float" -> [text |-> FormatFloat(val.n), can |-> FALSE]
      [] val.t = "datetime" ->
            [text |-> FormatDate(val.items, 1) \o " " \o FormatTime(val.items, 4), can |-> TRUE]
      [] val.t = "date" -> [text |-> FormatDate(val.items, 1), can |-> TRUE]
      [] val.t = "time" -> [text |-> FormatTime(val.items, 1), can |-> TRUE]
      [] OTHER -> [text |-> val.s, can |-> TRUE]

(***************************************************************************)
(* Stmt.quote: single quotes around the value, embedded single quotes      *)
(* backslash-escaped.  The only text of the model that holds a quote is    *)
(* "it's".                                                                 *)
(***************************************************************************)
EscapeQuotes(s) == IF s = "it's" THEN "it\\'s" ELSE s
quote(val) == "'" \o EscapeQuotes(val) \o "'"

\* Stmt.quote_col_ref.  The column references of the model that hold a star,
\* a space, a parenthesis or a backtick are listed in VerbatimColRefs; none
\* holds a dot.  A TLA+ string cannot hold the backtick character: the model
\* writes it as the caret.
Backtick == "^"
VerbatimColRefs == {"DATE(c1)"}
quote_col_ref(st, col_ref) ==
    IF st.quote_all_col_refs
    THEN IF col_ref \in VerbatimColRefs THEN col_ref ELSE Backtick \o col_ref \o Backtick
    ELSE col_ref

(***************************************************************************)
(* Stmt.parameterize_values.  io = [inline, params, err]: the two sinks    *)
(* (None or a list) and the exception raised, "" when none.                *)
(***************************************************************************)
RECURSIVE parameterize_values(_, _, _)
RECURSIVE parameterize_each(_, _, _, _)

parameterize_each(st, items, i, io) ==
    IF i > Len(items) \/ io.err # "" THEN io
    ELSE parameterize_each(st, items, i + 1, parameterize_values(st, items[i], io))

\* parameterize_scalar that sends every value to the placeholder branch.
parameterize_scalar_all(st, val, io) ==
    LET p == pickle(val)
    IN  IF io.inline.given
        THEN IF io.params.given /\ st.placeholder # NoPlaceholder
             THEN [io EXCEPT !.inline.items = Append(@, Hole(st.placeholder, p.text)),
                             !.params.items = Append(@, p.text)]
             ELSE IF p.can /\ st.quote_all_values
             THEN [io EXCEPT !.inline.items = Append(@, T(quote(p.text)))]
             ELSE [io EXCEPT !.inline.items = Append(@, T(p.text))]
        ELSE IF io.params.given
        THEN [io EXCEPT !.params.items = Append(@, p.text)]
        ELSE [io EXCEPT !.err = "ValueError"]

parameterize_scalar(st, val, io) ==
    LET using_placeholder == io.params.given /\ st.placeholder # NoPlaceholder
        quote_it == IF using_placeholder THEN FALSE ELSE st.quote_all_values
        p == pickle(val)
    IN  IF io.inline.given
        THEN IF p.can /\ io.params.given /\ st.placeholder # NoPlaceholder
             THEN [io EXCEPT !.inline.items = Append(@, Hole(st.placeholder, p.text)),
                             !.params.items = Append(@, p.text)]
             ELSE IF p.can /\ quote_it
             THEN [io EXCEPT !.inline.items = Append(@, T(quote(p.text)))]
             ELSE [io EXCEPT !.inline.items = Append(@, T(p.text))]
        ELSE IF io.params.given
        THEN [io EXCEPT !.params.items = Append(@, p.text)]
        ELSE [io EXCEPT !.err = "ValueError"]

parameterize_values(st, list_or_value, io) ==
    IF IsSequence(list_or_value)
    THEN parameterize_each(st, list_or_value.items, 1, io)
    ELSE parameterize_scalar(st, list_or_value, io)

(***************************************************************************)
(* WhereCondition objects.  values, values_raw and selects are dicts under *)
(* AND and lists under OR: both are kept as sequences of entries, and a    *)
(* dict assignment (DictSet) replaces the entry of an existing key where   *)
(* it stands or appends a new one, as Python's insertion-ordered dict.     *)
(***************************************************************************)
WhereCondition(stmt, where_predicate, negate) ==
    [stmt |-> stmt, negate |-> negate, predicate |-> where_predicate,
     values |-> <<>>, values_raw |-> <<>>, selects |-> <<>>,
     conds |-> <<>>, raw_exprs |-> <<>>, nesting_level |-> 0]

IsDict(cond) == cond.predicate = "AND"

HasKey(d, key) == \E i \in DOMAIN d : d[i].field = key

DictSet(d, entry) ==
    IF HasKey(d, entry.field)
    THEN [i \in DOMAIN d |-> IF d[i].field = entry.field THEN entry ELSE d[i]]
    ELSE Append(d, entry)

\* WhereCondition.has_conds
RECURSIVE has_conds(_, _)
has_conds(C, c) ==
    \/ C[c].values # <<>>
    \/ C[c].values_raw # <<>>
    \/ C[c].raw_exprs # <<>>
    \/ C[c].selects # <<>>
    \/ \E i \in DOMAIN C[c].conds : has_conds(C, C[c].conds[i])

\* WhereCondition.expr_count
expr_count(C, c) ==
    Len(C[c].values) + Len(C[c].values_raw) + Len(C[c].raw_exprs) + Len(C[c].selects)
    + Cardinality({i \in DOMAIN C[c].conds : has_conds(C, C[c].conds[i])})

(***************************************************************************)
(* WhereCondition.sql.  The loops of the method are folds over an          *)
(* accumulator acc = [sql, pv, err]: the list of fragments, the caller's   *)
(* parameter list and the exception raised ("" when none).                 *)
(***************************************************************************)
RECURSIVE JoinFrom(_, _, _)
JoinFrom(frags, sep, i) ==
    IF i > Len(frags) THEN <<>>
    ELSE IF i = Len(frags) THEN frags[i]
    ELSE frags[i] \o sep \o JoinFrom(frags, sep, i + 1)

\* sep.join(frags), each fragment a token sequence
Join(frags, sep) == JoinFrom(frags, sep, 1)

\* sql_value_fragment where a sequence of one element is rendered as any other
\* sequence.
sql_value_fragment_no_collapse(st, e, acc, io) ==
    LET field == quote_col_ref(st, e.field)
        inline_values == io.inline.items
        multi == IsSequence(e.value)
        val == IF multi
               THEN <<T("(")>> \o Join([i \in DOMAIN inline_values |-> <<inline_values[i]>>],
                                       <<T(",")>>) \o <<T(")")>>
               ELSE <<inline_values[1]>>
        op1 == IF multi
               THEN (IF e.op = "=" THEN "IN" ELSE IF e.op = "<>" THEN "NOT IN" ELSE e.op)
               ELSE e.op
        op2 == IF Text(val) \in {<<"NULL">>, <<"NOT NULL">>}
               THEN (IF op1 = "=" THEN "IS" ELSE IF op1 = "<>" THEN "IS NOT" ELSE op1)
               ELSE op1
    IN  IF io.err # "" THEN [acc EXCEPT !.pv = io.params.items, !.err = io.err]
        ELSE IF inline_values = <<>>
        THEN [acc EXCEPT !.pv = io.params.items, !.err = "IndexError"]
        ELSE [acc EXCEPT !.pv = io.params.items,
                         !.sql = Append(@, <<T(field), T(op2)>> \o val)]

\* sql_value_fragment where the NULL rule reads the operator as given, before
\* the sequence rule.
sql_value_fragment_flip_first(st, e, acc, io) ==
    LET field == quote_col_ref(st, e.field)
        inline_values == io.inline.items
        multi == IsSequence(e.value) /\ Len(e.value.items) > 1
        single == IsSequence(e.value) /\ ~multi
        val == IF multi
               THEN <<T("(")>> \o Join([i \in DOMAIN inline_values |-> <<inline_values[i]>>],
                                       <<T(",")>>) \o <<T(")")>>
               ELSE <<inline_values[1]>>
        op1 == IF Text(val) \in {<<"NULL">>, <<"NOT NULL">>}
               THEN (IF e.op = "=" THEN "IS" ELSE IF e.op = "<>" THEN "IS NOT" ELSE e.op)
               ELSE e.op
        op2 == IF multi
               THEN (IF op1 = "=" THEN "IN" ELSE IF op1 = "<>" THEN "NOT IN" ELSE op1)
               ELSE IF single
               THEN (IF op1 = "IN" THEN "=" ELSE IF op1 = "NOT IN" THEN "<>" ELSE op1)
               ELSE op1
    IN  IF io.err # "" THEN [acc EXCEPT !.pv = io.params.items, !.err = io.err]
        ELSE IF ~multi /\ inline_values = <<>>
        THEN [acc EXCEPT !.pv = io.params.items, !.err = "IndexError"]
        ELSE [acc EXCEPT !.pv = io.params.items,
                         !.sql = Append(@, <<T(field), T(op2)>> \o val)]

\* Lines 444-468 of the loop over self._values: the value and the operator
\* after the sequence rule and the NULL rule, and the fragment appended.
\* io is what parameterize_values left in inline_values and param_values.
sql_value_fragment(st, e, acc, io) ==
    LET field == quote_col_ref(st, e.field)
        inline_values == io.inline.items
        multi == IsSequence(e.value) /\ Len(e.value.items) > 1
        single == IsSequence(e.value) /\ ~multi
        val == IF multi
               THEN <<T("(")>> \o Join([i \in DOMAIN inline_values |-> <<inline_values[i]>>],
                                       <<T(",")>>) \o <<T(")")>>
               ELSE <<inline_values[1]>>
        op1 == IF multi
               THEN (IF e.op = "=" THEN "IN" ELSE IF e.op = "<>" THEN "NOT IN" ELSE e.op)
               ELSE IF single
               THEN (IF e.op = "IN" THEN "=" ELSE IF e.op = "NOT IN" THEN "<>" ELSE e.op)
               ELSE e.op
        op2 == IF Text(val) \in {<<"NULL">>, <<"NOT NULL">>}
               THEN (IF op1 = "=" THEN "IS" ELSE IF op1 = "<>" THEN "IS NOT" ELSE op1)
               ELSE op1
    IN  IF io.err # "" THEN [acc EXCEPT !.pv = io.params.items, !.err = io.err]
        ELSE IF ~multi /\ inline_values = <<>>
        THEN [acc EXCEPT !.pv = io.params.items, !.err = "IndexError"]
        ELSE [acc EXCEPT !.pv = io.params.items,
                         !.sql = Append(@, <<T(field), T(op2)>> \o val)]

\* One value predicate (the body of the loop over self._values).
sql_value(st, e, acc) ==
    sql_value_fragment(st, e, acc,
        parameterize_values(st, e.value,
            [inline |-> Some(<<>>), params |-> Some(acc.pv), err |-> ""]))

RECURSIVE sql_values(_, _, _, _)
sql_values(st, values, i, acc) ==
    IF i > Len(values) \/ acc.err # "" THEN acc
    ELSE sql_values(st, values, i + 1, sql_value(st, values[i], acc))

\* pickle every bind param and append it
PickleAll(params) == [i \in DOMAIN params |-> pickle(params[i]).text]

\* sql_value_raw that drops the bind params.
sql_value_raw_unbound(st, e, acc) ==
    [acc EXCEPT !.sql = Append(@, <<T(quote_col_ref(st, e.field)), T(e.op)>> \o e.value)]

\* sql_value_raw that appends the bind params last first.
sql_value_raw_reversed(st, e, acc) ==
    [acc EXCEPT !.pv = IF e.params.given /\ st.placeholder # NoPlaceholder
                       THEN @ \o [i \in DOMAIN e.params.items |->
                                     pickle(e.params.items[Len(e.params.items) + 1 - i]).text]
                       ELSE @,
                !.sql = Append(@, <<T(quote_col_ref(st, e.field)), T(e.op)>> \o e.value)]

\* One raw-value predicate (the body of the loop over self._values_raw).
sql_value_raw(st, e, acc) ==
    [acc EXCEPT !.pv = IF e.params.given /\ st.placeholder # NoPlaceholder
                       THEN @ \o PickleAll(e.params.items) ELSE @,
                !.sql = Append(@, <<T(quote_col_ref(st, e.field)), T(e.op)>> \o e.value)]

RECURSIVE sql_values_raw(_, _, _, _)
sql_values_raw(st, values_raw, i, acc) ==
    IF i > Len(values_raw) \/ acc.err # "" THEN acc
    ELSE sql_values_raw(st, values_raw, i + 1, sql_value_raw(st, values_raw[i], acc))

\* One raw expression (the body of the loop over self._raw_exprs).
sql_raw_expr(st, e, acc) ==
    [acc EXCEPT !.sql = Append(@, e.expr),
                !.pv = IF e.params.given /\ st.placeholder # NoPlaceholder
                       THEN @ \o e.params.items ELSE @]

RECURSIVE sql_raw_exprs(_, _, _, _)
sql_raw_exprs(st, raw_exprs, i, acc) ==
    IF i > Len(raw_exprs) \/ acc.err # "" THEN acc
    ELSE sql_raw_exprs(st, raw_exprs, i + 1, sql_raw_expr(st, raw_exprs[i], acc))

RECURSIVE WhereCondition_sql(_, _, _, _)
RECURSIVE sql_conds(_, _, _, _, _)
RECURSIVE sql_selects(_, _, _, _, _, _)
RECURSIVE Select_sql(_, _, _)

\* Python's truth value of the value sql() returned: neither None nor ''.
Truthy(r) == ~r.none /\ r.text # <<>>

\* sql_cond that appends the text of every child, '' for one that returned None
\* or ''.
sql_cond_all(acc, r) ==
    [sql |-> IF r.err = "" THEN Append(acc.sql, r.text) ELSE acc.sql,
     pv |-> r.pv, err |-> r.err]

\* Lines 423-424: the child's text r is appended if it is truthy.
sql_cond(acc, r) ==
    [sql |-> IF r.err = "" /\ Truthy(r) THEN Append(acc.sql, r.text) ELSE acc.sql,
     pv |-> r.pv, err |-> r.err]

\* The loop over self._conds.
sql_conds(S, C, cs, i, acc) ==
    IF i > Len(cs) \/ acc.err # "" THEN acc
    ELSE sql_conds(S, C, cs, i + 1,
             sql_cond(acc, WhereCondition_sql(S, C, cs[i], acc.pv)))

\* Lines 505-515: the bind params, then the params of the subquery, whose
\* sql() returned sub, and the fragment.
sql_select_fragment(S, st, e, acc, sub) ==
    LET pv1 == IF e.params.given /\ st.placeholder # NoPlaceholder
               THEN acc.pv \o PickleAll(e.params.items)
               ELSE acc.pv
        select_params == IF S[e.stmt].placeholder # NoPlaceholder THEN sub.params ELSE None
        pv2 == IF select_params.given THEN pv1 \o select_params.items ELSE pv1
    IN  IF sub.err # "" THEN [acc EXCEPT !.pv = pv1, !.err = sub.err]
        ELSE [acc EXCEPT !.pv = pv2,
                         !.sql = Append(@, <<T(quote_col_ref(st, e.field)), T(e.op), T("(")>>
                                            \o sub.text \o <<T(")")>>)]

\* One subquery-membership predicate (the body of the loop over self._selects).
sql_select(S, C, st, e, acc) ==
    sql_select_fragment(S, st, e, acc, Select_sql(S, C, e.stmt))

sql_selects(S, C, st, selects, i, acc) ==
    IF i > Len(selects) \/ acc.err # "" THEN acc
    ELSE sql_selects(S, C, st, selects, i + 1, sql_select(S, C, st, selects[i], acc))

\* sql_fragments with the loop over self._raw_exprs run before the loop over
\* self._values.
sql_fragments_exprs_first(S, C, c, param_values) ==
    sql_selects(S, C, S[C[c].stmt], C[c].selects, 1,
      sql_values_raw(S[C[c].stmt], C[c].values_raw, 1,
        sql_values(S[C[c].stmt], C[c].values, 1,
          sql_raw_exprs(S[C[c].stmt], C[c].raw_exprs, 1,
            sql_conds(S, C, C[c].conds, 1,
              [sql |-> <<>>, pv |-> param_values, err |-> ""])))))

\* The fragments of a condition in the order sql() collects them.
sql_fragments(S, C, c, param_values) ==
    sql_selects(S, C, S[C[c].stmt], C[c].selects, 1,
      sql_raw_exprs(S[C[c].stmt], C[c].raw_exprs, 1,
        sql_values_raw(S[C[c].stmt], C[c].values_raw, 1,
          sql_values(S[C[c].stmt], C[c].values, 1,
            sql_conds(S, C, C[c].conds, 1,
              [sql |-> <<>>, pv |-> param_values, err |-> ""])))))

\* sql_wrap with the negation written around the parenthesized form.
sql_wrap_both(C, c, sql) ==
    LET joined == Join(sql, <<T(C[c].predicate)>>)
        inner == IF expr_count(C, c) > 1 THEN <<T("(")>> \o joined \o <<T(")")>> ELSE joined
    IN  IF C[c].negate THEN <<T("NOT"), T("(")>> \o inner \o <<T(")")>> ELSE inner

\* sql_wrap that leaves the condition at nesting level 0 without parentheses.
sql_wrap_nested(C, c, sql) ==
    LET joined == Join(sql, <<T(C[c].predicate)>>)
    IN  IF C[c].negate THEN <<T("NOT"), T("(")>> \o joined \o <<T(")")>>
        ELSE IF expr_count(C, c) > 1 /\ C[c].nesting_level > 0
        THEN <<T("(")>> \o joined \o <<T(")")>>
        ELSE joined

\* Lines 520-527: the joined fragments, negated or parenthesized.
sql_wrap(C, c, sql) ==
    LET joined == Join(sql, <<T(C[c].predicate)>>)
    IN  IF C[c].negate THEN <<T("NOT"), T("(")>> \o joined \o <<T(")")>>
        ELSE IF expr_count(C, c) > 1 THEN <<T("(")>> \o joined \o <<T(")")>>
        ELSE joined

\* sql_return without the early return of None.
sql_return_always(C, c, acc) ==
    IF acc.err # "" THEN [err |-> acc.err, none |-> TRUE, text |-> <<>>, pv |-> acc.pv]
    ELSE [err |-> "", none |-> FALSE, text |-> sql_wrap(C, c, acc.sql), pv |-> acc.pv]

\* Lines 517-527: what sql() returns once the fragments are collected in acc.
sql_return(C, c, acc) ==
    IF acc.err # "" THEN [err |-> acc.err, none |-> TRUE, text |-> <<>>, pv |-> acc.pv]
    ELSE IF acc.sql = <<>> THEN [err |-> "", none |-> TRUE, text |-> <<>>, pv |-> acc.pv]
    ELSE [err |-> "", none |-> FALSE, text |-> sql_wrap(C, c, acc.sql), pv |-> acc.pv]

\* WhereCondition.sql(param_values): [err, none, text, pv], pv the caller's
\* list when the call ends.
WhereCondition_sql(S, C, c, param_values) ==
    sql_return(C, c, sql_fragments(S, C, c, param_values))

(***************************************************************************)
(* Select.sql, for a Select built by Select(table) and the WHERE methods:  *)
(* no columns, joins, GROUP BY, HAVING, ORDER BY or LIMIT.                 *)
(* [err, tuple, text, params]: tuple tells a (text, params) pair from the  *)
(* bare text returned when the placeholder is disabled.                    *)
(***************************************************************************)
\* The statement text and what sql() returns, where_cond being what the root
\* condition rendered.
Select_sql_return(st, where_cond) ==
    LET sql == Words(<<"SELECT", "*", "FROM", st.table>>)
               \o (IF Truthy(where_cond) THEN <<T("WHERE")>> \o where_cond.text ELSE <<>>)
        param_values == where_cond.pv
    IN  IF where_cond.err # ""
        THEN [err |-> where_cond.err, tuple |-> FALSE, text |-> <<>>, params |-> None]
        ELSE IF st.placeholder # NoPlaceholder
        THEN [err |-> "", tuple |-> TRUE, text |-> sql,
              params |-> IF param_values # <<>> THEN Some(param_values) ELSE None]
        ELSE IF param_values # <<>>
        THEN [err |-> "AssertionError", tuple |-> FALSE, text |-> <<>>, params |-> None]
        ELSE [err |-> "", tuple |-> FALSE, text |-> sql, params |-> None]

Select_sql(S, C, s) ==
    Select_sql_return(S[s], WhereCondition_sql(S, C, S[s].root, <<>>))

(***************************************************************************)
(* Insert and Replace (Stmt, SetValuesMixin).  A statement record holds    *)
(* table_name ("" for None), columns, values and values_raw (dicts kept as *)
(* sequences of entries), batch_values (rows), select and replace.         *)
(* query_options is left empty.  A raw value is one token of text.         *)
(***************************************************************************)
\* Insert.select: nothing, a SELECT given as text, or a Select object
NoSelect == [given |-> FALSE, object |-> FALSE, items |-> <<>>]
SelectText(toks) == [given |-> TRUE, object |-> FALSE, items |-> toks]
SelectObject == [given |-> TRUE, object |-> TRUE, items |-> <<>>]

\* a parenthesized, comma-separated list of fragments
Tuple(frags) == <<T("(")>> \o Join(frags, <<T(",")>>) \o <<T(")")>>

\* (`c1`, `c2`, ...)
ColumnsClause(st, col_names) ==
    Tuple([i \in DOMAIN col_names |-> <<T(quote_col_ref(st, col_names[i]))>>])

\* INSERT|REPLACE [IGNORE] INTO table
InsertHeader(st) ==
    <<T(IF st.replace THEN "REPLACE" ELSE "INSERT")>>
    \o (IF st.ignore_error THEN <<T("IGNORE")>> ELSE <<>>)
    \o <<T("INTO"), T(st.table_name)>>

\* The loop over self._values: each value through parameterize_values with
\* both lists.
RECURSIVE set_values(_, _, _, _)
set_values(st, values, i, io) ==
    IF i > Len(values) THEN io
    ELSE set_values(st, values, i + 1, parameterize_values(st, values[i].value, io))

\* The loop over self._values_raw: the raw text inlined, the bind params
\* appended as they were given when a placeholder is configured.
RECURSIVE set_values_raw(_, _, _, _)
set_values_raw(st, values_raw, i, io) ==
    IF i > Len(values_raw) THEN io
    ELSE set_values_raw(st, values_raw, i + 1,
            [io EXCEPT !.inline.items = Append(@, values_raw[i].value),
                       !.params.items =
                           IF values_raw[i].params.given /\ st.placeholder # NoPlaceholder
                           THEN @ \o [j \in DOMAIN values_raw[i].params.items |->
                                         values_raw[i].params.items[j].s]
                           ELSE @])

\* the names of the fields of a dict, in order
Keys(d) == [i \in DOMAIN d |-> d[i].field]

\* The values branch that appends the names to the list self._columns names.
Insert_values_aliased(st, io) ==
    LET col_names == st.columns \o Keys(st.values) \o Keys(st.values_raw)
    IN  IF Len(col_names) # Len(io.inline.items)
        THEN [err |-> "AssertionError", text |-> <<>>, pv |-> <<>>, columns |-> col_names]
        ELSE [err |-> "", columns |-> col_names, pv |-> io.params.items,
              text |-> InsertHeader(st) \o ColumnsClause(st, col_names) \o <<T("VALUES")>>
                       \o Tuple([i \in DOMAIN io.inline.items |-> <<io.inline.items[i]>>])]

\* The values branch once the three checks passed, io being what the two
\* loops left: col_names is a new list, self._columns stays as it was.
Insert_values(st, io) ==
    LET col_names == Keys(st.values) \o Keys(st.values_raw)
    IN  IF Len(col_names) # Len(io.inline.items)
        THEN [err |-> "AssertionError", text |-> <<>>, pv |-> <<>>, columns |-> st.columns]
        ELSE [err |-> "", columns |-> st.columns, pv |-> io.params.items,
              text |-> InsertHeader(st) \o ColumnsClause(st, col_names) \o <<T("VALUES")>>
                       \o Tuple([i \in DOMAIN io.inline.items |-> <<io.inline.items[i]>>])]

\* each token as a fragment of its own
Fragments(toks) == [i \in DOMAIN toks |-> <<toks[i]>>]

\* what parameterize_values appends for a row to an inline list alone, and
\* to a param list alone
row_values(st, row) ==
    parameterize_values(st, row, [inline |-> Some(<<>>), params |-> None, err |-> ""]).inline.items
row_param_value(st, row) ==
    parameterize_values(st, row, [inline |-> None, params |-> Some(<<>>), err |-> ""]).params.items

\* The batch branch that binds the parameterizable values only.
Insert_batch_parameterizable(st) ==
    [err |-> "", columns |-> st.columns,
     pv |-> [i \in DOMAIN st.batch_values |->
                parameterize_values(st, st.batch_values[i],
                    [inline |-> Some(<<>>), params |-> Some(<<>>), err |-> ""]).params.items],
     text |-> InsertHeader(st) \o ColumnsClause(st, st.columns) \o <<T("VALUES")>>
              \o Tuple([i \in DOMAIN st.columns |-> <<T(st.placeholder)>>])]

\* The batch branch once the two checks passed.  Placeholder disabled: each
\* row inlined as a tuple of its own.  Otherwise: one placeholder per
\* column, and one list of params per row.
Insert_batch(st) ==
    IF st.placeholder = NoPlaceholder
    THEN [err |-> "", columns |-> st.columns, pv |-> <<>>,
          text |-> InsertHeader(st) \o ColumnsClause(st, st.columns) \o <<T("VALUES")>>
                   \o Join([i \in DOMAIN st.batch_values |->
                               Tuple(Fragments(row_values(st, st.batch_values[i])))],
                           <<T(",")>>)]
    ELSE [err |-> "", columns |-> st.columns,
          pv |-> [i \in DOMAIN st.batch_values |-> row_param_value(st, st.batch_values[i])],
          text |-> InsertHeader(st) \o ColumnsClause(st, st.columns) \o <<T("VALUES")>>
                   \o Tuple([i \in DOMAIN st.columns |-> <<T(st.placeholder)>>])]

\* The select branch once the check passed: a Select object is asked for
\* sqlp(), which Select does not define (Stmt.sqlp raises).
Insert_select(st) ==
    IF st.select.object
    THEN [err |-> "NotImplementedError", text |-> <<>>, pv |-> <<>>, columns |-> st.columns]
    ELSE [err |-> "", columns |-> st.columns, pv |-> <<>>,
          text |-> InsertHeader(st) \o ColumnsClause(st, st.columns) \o st.select.items]

\* an exception raised by sqlp
Raise(st, err) == [err |-> err, text |-> <<>>, pv |-> <<>>, columns |-> st.columns]

\* Insert.sqlp that accepts values together with batch values.
Insert_branch_unchecked(st) ==
    IF st.table_name = "" THEN Raise(st, "ValueError")
    ELSE IF st.values # <<>> \/ st.values_raw # <<>>
    THEN IF st.columns # <<>> \/ st.select.given
         THEN Raise(st, "ValueError")
         ELSE Insert_values(st,
                  set_values_raw(st, st.values_raw, 1,
                      set_values(st, st.values, 1,
                          [inline |-> Some(<<>>), params |-> Some(<<>>), err |-> ""])))
    ELSE IF st.batch_values # <<>>
    THEN IF st.columns = <<>> \/ st.select.given
         THEN Raise(st, "ValueError")
         ELSE Insert_batch(st)
    ELSE IF st.select.given
    THEN IF st.columns = <<>> THEN Raise(st, "ValueError") ELSE Insert_select(st)
    ELSE Raise(st, "ValueError")

\* Insert.sqlp up to its return: the table, then the branch of the source
\* that is set, each with its checks.
Insert_branch(st) ==
    IF st.table_name = "" THEN Raise(st, "ValueError")
    ELSE IF st.values # <<>> \/ st.values_raw # <<>>
    THEN IF st.columns # <<>> \/ st.batch_values # <<>> \/ st.select.given
         THEN Raise(st, "ValueError")
         ELSE Insert_values(st,
                  set_values_raw(st, st.values_raw, 1,
                      set_values(st, st.values, 1,
                          [inline |-> Some(<<>>), params |-> Some(<<>>), err |-> ""])))
    ELSE IF st.batch_values # <<>>
    THEN IF st.columns = <<>> \/ st.select.given
         THEN Raise(st, "ValueError")
         ELSE Insert_batch(st)
    ELSE IF st.select.given
    THEN IF st.columns = <<>> THEN Raise(st, "ValueError") ELSE Insert_select(st)
    ELSE Raise(st, "ValueError")

\* The return of an sqlp method, r being what its body left: the params as a
\* tuple, or None when nothing was bound.
sqlp_return(st, r) ==
    IF r.err # "" THEN [r EXCEPT !.pv = None]
    ELSE IF st.placeholder # NoPlaceholder
    THEN [r EXCEPT !.pv = IF r.pv # <<>> THEN Some(r.pv) ELSE None]
    ELSE IF r.pv # <<>> THEN [Raise(st, "AssertionError") EXCEPT !.pv = None]
    ELSE [r EXCEPT !.pv = None]

\* Stmt.sql given what sqlp returned: the pair, or the text alone when the
\* placeholder is disabled.  columns is what self._columns holds afterwards.
Stmt_sql_return(st, r) ==
    IF r.err # ""
    THEN [err |-> r.err, tuple |-> FALSE, text |-> <<>>, params |-> None, columns |-> r.columns]
    ELSE IF st.placeholder # NoPlaceholder
    THEN [err |-> "", tuple |-> TRUE, text |-> r.text, params |-> r.pv, columns |-> r.columns]
    ELSE IF r.pv.given
    THEN [err |-> "AssertionError", tuple |-> FALSE, text |-> <<>>, params |-> None,
          columns |-> r.columns]
    ELSE [err |-> "", tuple |-> FALSE, text |-> r.text, params |-> None, columns |-> r.columns]

\* Insert.sqlp and Insert.sql (Stmt.sql)
Insert_sqlp(st) == sqlp_return(st, Insert_branch(st))
Insert_sql(st) == Stmt_sql_return(st, Insert_sqlp(st))

(***************************************************************************)
(* Delete, Update (Stmt, WhereMixin, JoinMixin), Union and Lock.  A        *)
(* statement record holds table_names, orderby_conds, limit (0 for None),  *)
(* allow_unqualified_delete, ignore_error; selects and distinct; name and  *)
(* timeout; join_refs, each a join type, a table and a column to join on.  *)
(***************************************************************************)
\* JoinMixin._append_join_table_refs: the clauses appended to table_refs,
\* one per join, each JOIN table USING (column)
append_join_table_refs(st) ==
    [i \in DOMAIN st.join_refs |->
        <<T(st.join_refs[i].join_type), T(st.join_refs[i].table_factor), T("USING"),
          T("("), T(quote_col_ref(st, st.join_refs[i].join_cond)), T(")")>>]

\* sql_pair that returns the list of params as it is, empty or not.
sql_pair_list(st, sql, param_values) ==
    IF st.placeholder # NoPlaceholder
    THEN [err |-> "", tuple |-> TRUE, text |-> sql, params |-> Some(param_values)]
    ELSE IF param_values # <<>>
    THEN [err |-> "AssertionError", tuple |-> FALSE, text |-> <<>>, params |-> None]
    ELSE [err |-> "", tuple |-> FALSE, text |-> sql, params |-> None]

\* what a statement's sql() returns for text sql and the params collected
sql_pair(st, sql, param_values) ==
    IF st.placeholder # NoPlaceholder
    THEN [err |-> "", tuple |-> TRUE, text |-> sql,
          params |-> IF param_values # <<>> THEN Some(param_values) ELSE None]
    ELSE IF param_values # <<>>
    THEN [err |-> "AssertionError", tuple |-> FALSE, text |-> <<>>, params |-> None]
    ELSE [err |-> "", tuple |-> FALSE, text |-> sql, params |-> None]

\* an exception raised by sql()
sql_raise(err) == [err |-> err, tuple |-> FALSE, text |-> <<>>, params |-> None]

\* [ORDER BY a, b] [LIMIT n]
OrderLimit(st) ==
    (IF st.orderby_conds # <<>>
     THEN <<T("ORDER BY")>> \o Join([i \in DOMAIN st.orderby_conds |-> <<T(st.orderby_conds[i])>>],
                                    <<T(",")>>)
     ELSE <<>>)
    \o (IF st.limit # 0 THEN <<T("LIMIT"), T(ToString(st.limit))>> ELSE <<>>)

\* Delete.sql, root_has_conds being self._where_cond_root.has_conds and
\* where_cond what self._where_cond_root.sql(param_values) returns.  The
\* text None among the fragments makes " ".join raise TypeError.
Delete_sql_return(st, root_has_conds, where_cond) ==
    LET multi_table == Len(st.table_names) > 1 \/ Len(st.join_refs) > 0
        tables == Join([i \in DOMAIN st.table_names |-> <<T(st.table_names[i])>>], <<T(",")>>)
        using == IF multi_table /\ st.join_refs # <<>>
                 THEN <<T("USING"), T(st.table_names[1])>>
                      \o Join(append_join_table_refs(st), <<>>)
                 ELSE <<>>
        head == <<T("DELETE")>> \o Words(st.query_options)
                \o (IF st.ignore_error THEN <<T("IGNORE")>> ELSE <<>>)
                \o <<T("FROM")>> \o tables \o using
    IN  IF st.table_names = <<>> THEN sql_raise("ValueError")
        ELSE IF root_has_conds /\ where_cond.err # "" THEN sql_raise(where_cond.err)
        ELSE IF ~root_has_conds /\ ~st.allow_unqualified_delete THEN sql_raise("ValueError")
        ELSE IF multi_table /\ (st.orderby_conds # <<>> \/ st.limit # 0)
        THEN sql_raise("ValueError")
        ELSE IF root_has_conds /\ where_cond.none THEN sql_raise("TypeError")
        ELSE sql_pair(st, head
                          \o (IF root_has_conds THEN <<T("WHERE")>> \o where_cond.text ELSE <<>>)
                          \o OrderLimit(st),
                      IF root_has_conds THEN where_cond.pv ELSE <<>>)

Delete_sql(S, C, s) ==
    Delete_sql_return(S[s], has_conds(C, S[s].root), WhereCondition_sql(S, C, S[s].root, <<>>))

\* col=value, ...
SetClause(st, col_names, inline_values) ==
    Join([i \in DOMAIN col_names |->
             <<T(quote_col_ref(st, col_names[i])), T("="), inline_values[i]>>], <<T(",")>>)

\* Update.sqlp from the SET clause on, io being what the loops over the
\* values left and where_cond what the root rendered after them.
Update_sqlp_return(st, io, where_cond) ==
    LET col_names == Keys(st.values) \o Keys(st.values_raw)
        several == Len(st.table_names) + Len(st.join_refs) > 1
    IN  IF Len(col_names) # Len(io.inline.items) THEN sql_raise("AssertionError")
        ELSE IF where_cond.err # "" THEN sql_raise(where_cond.err)
        ELSE IF several /\ (st.orderby_conds # <<>> \/ st.limit # 0) THEN sql_raise("ValueError")
        ELSE sql_pair(st,
                 <<T("UPDATE")>> \o Words(st.query_options)
                 \o (IF st.ignore_error THEN <<T("IGNORE")>> ELSE <<>>)
                 \o Join([i \in DOMAIN st.table_names |-> <<T(st.table_names[i])>>], <<T(",")>>)
                 \o Join(append_join_table_refs(st), <<>>)
                 \o <<T("SET")>> \o SetClause(st, col_names, io.inline.items)
                 \o (IF Truthy(where_cond) THEN <<T("WHERE")>> \o where_cond.text ELSE <<>>)
                 \o OrderLimit(st),
                 where_cond.pv)

\* the root rendered onto the params the values left
Update_sqlp_where(S, C, s, io) ==
    Update_sqlp_return(S[s], io, WhereCondition_sql(S, C, S[s].root, io.params.items))

\* Update.sql (Stmt.sql over Update.sqlp)
Update_sql(S, C, s) ==
    IF S[s].table_names = <<>> \/ (S[s].values = <<>> /\ S[s].values_raw = <<>>)
    THEN sql_raise("ValueError")
    ELSE Update_sqlp_where(S, C, s,
             set_values_raw(S[s], S[s].values_raw, 1,
                 set_values(S[s], S[s].values, 1,
                     [inline |-> Some(<<>>), params |-> Some(<<>>), err |-> ""])))

\* The loop of Union.sqlp over self._selects from statement i on, sql being
\* the fragments collected so far: a separator when sql is not empty, UNION
\* ALL when distinct is False, then the statement in parentheses.
RECURSIVE Union_selects(_, _, _)
Union_selects(st, i, sql) ==
    IF i > Len(st.selects) THEN sql
    ELSE Union_selects(st, i + 1,
             sql \o (IF sql # <<>>
                     THEN <<T(IF st.distinct = "False" THEN "UNION ALL" ELSE "UNION")>>
                     ELSE <<>>)
                 \o <<T("(")>> \o st.selects[i].items \o <<T(")")>>)

\* [ORDER BY a, b] [LIMIT [offset,]row_count] of a Union
Union_order_limit(st) ==
    (IF st.orderby_conds # <<>>
     THEN <<T("ORDER BY")>> \o Join([i \in DOMAIN st.orderby_conds |-> <<T(st.orderby_conds[i])>>],
                                    <<T(",")>>)
     ELSE <<>>)
    \o (IF st.limit = 0 THEN <<>>
        ELSE IF st.offset > 0
        THEN <<T("LIMIT"), T(ToString(st.offset)), T(","), T(ToString(st.limit))>>
        ELSE <<T("LIMIT"), T(ToString(st.limit))>>)

\* Union.sql (Stmt.sql over Union.sqlp): a Select object is asked for sqlp(),
\* which Select does not define; the query options come first and SELECTs
\* given as text follow.  limit is the row count, 0 for no LIMIT.
Union_sql(st) ==
    IF st.selects = <<>> THEN sql_raise("ValueError")
    ELSE IF \E i \in DOMAIN st.selects : st.selects[i].object
    THEN sql_raise("NotImplementedError")
    ELSE sql_pair(st,
             Union_selects(st, 1, Words(st.query_options)) \o Union_order_limit(st),
             <<>>)

\* Stmt.sqlp, which the classes that define no sqlp of their own inherit
Stmt_sqlp == sql_raise("NotImplementedError")

\* what sqlp returns given what sql() of the same class returns: always a pair
sqlp_of(r) == IF r.err = "" THEN [r EXCEPT !.tuple = TRUE] ELSE r

\* Stmt.__call__: self.sqlp() of the class of the statement.  Insert, Replace,
\* Update and Union define sqlp; Select, Delete and Lock define sql and get
\* Stmt.sqlp.
Stmt_call(S, C, s) ==
    CASE S[s].kind \in {"Insert", "Replace"} ->
            sqlp_of(Insert_sql(S[s]))
      [] S[s].kind = "Update" -> sqlp_of(Update_sql(S, C, s)) @@ [columns |-> S[s].columns]
      [] S[s].kind = "Union" -> sqlp_of(Union_sql(S[s])) @@ [columns |-> S[s].columns]
      [] OTHER -> Stmt_sqlp @@ [columns |-> S[s].columns]

\* Lock.sql (get_lock)
Lock_get_lock(st) ==
    IF st.name = "" \/ st.timeout = 0 THEN sql_raise("ValueError")
    ELSE IF st.placeholder # NoPlaceholder
    THEN [err |-> "", tuple |-> TRUE, params |-> None,
          text |-> <<T("SELECT"), T("GET_LOCK"), T("("), T(quote(st.name)), T(","),
                     T(ToString(st.timeout)), T(")")>>]
    ELSE [err |-> "", tuple |-> FALSE, params |-> None,
          text |-> <<T("SELECT"), T("GET_LOCK"), T("("), T(quote(st.name)), T(","),
                     T(ToString(st.timeout)), T(")")>>]

(***************************************************************************)
(* The builder methods, as functions of the arena C of conditions.         *)
(***************************************************************************)
\* where_predicate as the constructor of WhereCondition reads it (None is 'AND')
NormPredicate(where_predicate) == IF where_predicate = "None" THEN "AND" ELSE where_predicate

\* WhereCondition.add_cond(None, where_predicate, negate) on condition c:
\* the arena with the new condition created, levelled and appended.
add_cond(C, c, where_predicate, negate) ==
    LET new == Len(C) + 1
        cond == [WhereCondition(C[c].stmt, NormPredicate(where_predicate), negate)
                    EXCEPT !.nesting_level = C[c].nesting_level + 1]
    IN  Append([C EXCEPT ![c].conds = Append(@, new)], cond)

\* The nesting_level setter that leaves the subconditions alone.
set_nesting_level_shallow(C, c, value) == [C EXCEPT ![c].nesting_level = value]

\* The nesting_level setter: the level of c, then of each subcondition from
\* the i-th on, one more.
RECURSIVE set_nesting_level(_, _, _)
RECURSIVE set_nesting_levels(_, _, _, _)
set_nesting_levels(C, cs, i, value) ==
    IF i > Len(cs) THEN C
    ELSE set_nesting_levels(set_nesting_level(C, cs[i], value), cs, i + 1, value)

set_nesting_level(C, c, value) ==
    set_nesting_levels([C EXCEPT ![c].nesting_level = value], C[c].conds, 1, value + 1)

\* WhereCondition.add_cond(cond) on condition c, cond an existing condition:
\* cond levelled below c, then appended.
add_cond_existing(C, c, cond) ==
    [set_nesting_level(C, cond, C[c].nesting_level + 1) EXCEPT ![c].conds = Append(@, cond)]

\* where_value that appends under AND as it does under OR.
where_value_append(C, c, field, value, operator) ==
    [C EXCEPT ![c].values = Append(@, [field |-> field, value |-> value, op |-> operator])]

\* WhereCondition.where_value(field, value, operator), single-field form
where_value(C, c, field, value, operator) ==
    LET e == [field |-> field, value |-> value, op |-> operator]
    IN  [C EXCEPT ![c].values = IF IsDict(C[c]) THEN DictSet(@, e) ELSE Append(@, e)]

\* WhereCondition.where_raw_value(field, raw_value, operator, value_params)
where_raw_value(C, c, field, raw_value, operator, value_params) ==
    LET e == [field |-> field, value |-> raw_value, op |-> operator, params |-> value_params]
    IN  [C EXCEPT ![c].values_raw = IF IsDict(C[c]) THEN DictSet(@, e) ELSE Append(@, e)]

\* The first argument of where_raw_value: a field name, or a mapping given as
\* its items in iteration order, each a field f and a raw value v (None or
\* Some(text)).
Field(field) == [dict |-> FALSE, field |-> field, items |-> <<>>]
Mapping(items) == [dict |-> TRUE, field |-> "", items |-> items]

\* WhereCondition.where_raw_value called with a field name: ValueError for a
\* raw value of None, the predicate stored otherwise.  The result is the
\* arena as the call leaves it and the exception raised.
where_raw_value_field(C, c, field, raw_value, operator, value_params) ==
    IF ~raw_value.given
    THEN [conds |-> C, err |-> "ValueError"]
    ELSE [conds |-> where_raw_value(C, c, field, raw_value.items, operator, value_params),
          err |-> ""]

\* WhereCondition.where_raw_value called with a mapping: one call per item
\* from item i on, with the default operator and no bind params; an
\* exception ends the loop.
RECURSIVE where_raw_value_items(_, _, _, _)
where_raw_value_item(r, c, items, i) ==
    IF r.err # "" THEN r ELSE where_raw_value_items(r.conds, c, items, i)

where_raw_value_items(C, c, items, i) ==
    IF i > Len(items) THEN [conds |-> C, err |-> ""]
    ELSE where_raw_value_item(
             where_raw_value_field(C, c, items[i].f, items[i].v, "=", None), c, items, i + 1)

\* WhereCondition.where_raw_value(field_or_dict, raw_value, operator, value_params)
where_raw_value_call(C, c, field_or_dict, raw_value, operator, value_params) ==
    IF field_or_dict.dict
    THEN where_raw_value_items(C, c, field_or_dict.items, 1)
    ELSE where_raw_value_field(C, c, field_or_dict.field, raw_value, operator, value_params)

\* WhereCondition.where_value(field_or_dict, value, operator): with a mapping
\* one call per item, from item i on, with the operator of the call
RECURSIVE where_value_items(_, _, _, _, _)
where_value_items(C, c, items, i, operator) ==
    IF i > Len(items) THEN C
    ELSE where_value_items(where_value(C, c, items[i].f, items[i].v, operator),
                           c, items, i + 1, operator)

where_value_call(C, c, field_or_dict, value, operator) ==
    IF field_or_dict.dict
    THEN where_value_items(C, c, field_or_dict.items, 1, operator)
    ELSE where_value(C, c, field_or_dict.field, value, operator)

\* WhereCondition.where_expr(expr, expr_params), single-string form
where_expr(C, c, expr, expr_params) ==
    [C EXCEPT ![c].raw_exprs = Append(@, [expr |-> expr, params |-> expr_params])]


\* The first argument of where_expr: one expression, or a list of them.
Expr(expr) == [list |-> FALSE, expr |-> expr, items |-> <<>>]
ExprList(items) == [list |-> TRUE, expr |-> <<>>, items |-> items]

\* The loop of the list form from element i on, each element registered
\* with expr_params.
RECURSIVE where_expr_each(_, _, _, _, _)
where_expr_each(C, c, items, i, expr_params) ==
    IF i > Len(items) THEN C
    ELSE where_expr_each(where_expr(C, c, items[i], expr_params), c, items, i + 1, expr_params)

\* where_expr_call whose list form hands its expr_params to every element.
where_expr_call_shared(C, c, expr_or_list, expr_params) ==
    IF expr_or_list.list
    THEN where_expr_each(C, c, expr_or_list.items, 1, expr_params)
    ELSE where_expr(C, c, expr_or_list.expr, expr_params)

\* WhereCondition.where_expr(expr_or_list, expr_params): the list form
\* calls self.where_expr(expr) for each element, expr_params at its default
where_expr_call(C, c, expr_or_list, expr_params) ==
    IF expr_or_list.list
    THEN where_expr_each(C, c, expr_or_list.items, 1, None)
    ELSE where_expr(C, c, expr_or_list.expr, expr_params)

\* WhereCondition.where_select(field, stmt, operator, value_params)
where_select(C, c, field, stmt, operator, value_params) ==
    LET e == [field |-> field, stmt |-> stmt, op |-> operator, params |-> value_params]
    IN  [C EXCEPT ![c].selects = IF IsDict(C[c]) THEN DictSet(@, e) ELSE Append(@, e)]

\* WhereCondition.where_cond: the active condition, self._conds[-1]
where_cond(C, c) == C[c].conds[Len(C[c].conds)]

\* WhereMixin.where_cond: the active condition of statement s
active(s) == where_cond(conds, stmts[s].root)

(***************************************************************************)
(* The calls on a WhereCondition.  A builder call returns the builder and  *)
(* leaves nothing in out; sql() leaves what it returned.                   *)
(***************************************************************************)
NoOutput == [kind |-> "none"]

WhereCondition_add_cond(c, where_predicate, negate) ==
    /\ conds' = add_cond(conds, c, where_predicate, negate)
    /\ out' = NoOutput
    /\ UNCHANGED stmts

\* WhereCondition(stmt, where_predicate): a condition of its own, attached to
\* nothing
WhereCondition_init(s, where_predicate) ==
    /\ conds' = Append(conds, WhereCondition(s, where_predicate, FALSE))
    /\ out' = NoOutput
    /\ UNCHANGED stmts

\* c.add_cond(cond), cond an existing condition
WhereCondition_add_cond_existing(c, cond) ==
    /\ conds' = add_cond_existing(conds, c, cond)
    /\ out' = NoOutput
    /\ UNCHANGED stmts

WhereCondition_where_value(c, field, value, operator) ==
    /\ conds' = where_value(conds, c, field, value, operator)
    /\ out' = NoOutput
    /\ UNCHANGED stmts

\* cond.where_value(field_or_dict, value, operator), the first argument a
\* field or a mapping of fields to values
WhereCondition_where_value_call(c, field_or_dict, value, operator) ==
    /\ conds' = where_value_call(conds, c, field_or_dict, value, operator)
    /\ out' = NoOutput
    /\ UNCHANGED stmts

WhereCondition_where_raw_value(c, field, raw_value, operator, value_params) ==
    /\ conds' = where_raw_value(conds, c, field, raw_value, operator, value_params)
    /\ out' = NoOutput
    /\ UNCHANGED stmts

\* what a builder call that may raise leaves: the arena, and the exception in out
Returned(r) ==
    /\ conds' = r.conds
    /\ out' = IF r.err = "" THEN NoOutput ELSE [kind |-> "raised", err |-> r.err]
    /\ UNCHANGED stmts

\* cond.where_raw_value(field_or_dict, raw_value, operator, value_params),
\* with a raw value that may be None and a first argument that may be a mapping
WhereCondition_where_raw_value_call(c, field_or_dict, raw_value, operator, value_params) ==
    Returned(where_raw_value_call(conds, c, field_or_dict, raw_value, operator, value_params))

WhereCondition_where_expr(c, expr, expr_params) ==
    /\ conds' = where_expr(conds, c, expr, expr_params)
    /\ out' = NoOutput
    /\ UNCHANGED stmts

\* cond.where_expr(expr_or_list, expr_params), the first argument an
\* expression or a list of expressions
WhereCondition_where_expr_call(c, expr_or_list, expr_params) ==
    /\ conds' = where_expr_call(conds, c, expr_or_list, expr_params)
    /\ out' = NoOutput
    /\ UNCHANGED stmts

WhereCondition_where_select(c, field, stmt, operator, value_params) ==
    /\ conds' = where_select(conds, c, field, stmt, operator, value_params)
    /\ out' = NoOutput
    /\ UNCHANGED stmts

\* cond.sql(param_values): out holds the condition, the list as it was given
\* and the result [err, none, text, pv]
WhereCondition_sql_call(c, param_values) ==
    /\ out' = [kind |-> "sql", cond |-> c, given |-> param_values]
              @@ WhereCondition_sql(stmts, conds, c, param_values)
    /\ UNCHANGED <<stmts, conds>>

(***************************************************************************)
(* WhereMixin: the statement-level methods delegate to the root condition  *)
(* (add_cond, where_and, where_or) or to the active condition.             *)
(***************************************************************************)
WhereMixin_add_cond(s, where_predicate) ==
    WhereCondition_add_cond(stmts[s].root, where_predicate, FALSE)

WhereMixin_where_and(s, negate) ==
    WhereCondition_add_cond(stmts[s].root, "AND", negate)

WhereMixin_where_or(s, negate) ==
    WhereCondition_add_cond(stmts[s].root, "OR", negate)

\* WhereMixin.where_value sent to the first group instead of the active one.
WhereMixin_where_value_first(s, field, value, operator) ==
    WhereCondition_where_value(conds[stmts[s].root].conds[1], field, value, operator)

WhereMixin_where_value(s, field, value, operator) ==
    WhereCondition_where_value(active(s), field, value, operator)

WhereMixin_where_raw_value(s, field, raw_value, operator, value_params) ==
    WhereCondition_where_raw_value(active(s), field, raw_value, operator, value_params)

WhereMixin_where_expr(s, expr, expr_params) ==
    WhereCondition_where_expr(active(s), expr, expr_params)

WhereMixin_where_select(s, field, stmt, operator, value_params) ==
    WhereCondition_where_select(active(s), field, stmt, operator, value_params)

\* stmt.sql(): out holds the statement and the result [err, tuple, text, params]
Select_sql_call(s) ==
    /\ out' = [kind |-> "stmt_sql", stmt |-> s] @@ Select_sql(stmts, conds, s)
    /\ UNCHANGED <<stmts, conds>>

\* stmt.parameterize_values(list_or_value, inline_values, param_values): out
\* holds the value, the two lists as they were given and as the call left them
Stmt_parameterize_values_call(s, list_or_value, inline_values, param_values) ==
    /\ out' = [kind |-> "parameterize", stmt |-> s, value |-> list_or_value,
               inline0 |-> inline_values, params0 |-> param_values]
              @@ parameterize_values(stmts[s], list_or_value,
                     [inline |-> inline_values, params |-> param_values, err |-> ""])
    /\ UNCHANGED <<stmts, conds>>

(***************************************************************************)
(* Construction.  Select(table, placeholder, quote_all_values,             *)
(* where_predicate): Stmt.__init__ resolves the settings, WhereMixin's     *)
(* constructor creates the root condition and opens the implicit AND       *)
(* group; WhereMixin_init is the arena with the two conditions appended.   *)
(***************************************************************************)
Stmt_init(placeholder, quote_all_values, table, root) ==
    [placeholder |-> IF placeholder = "None" \/ placeholder = "True" THEN ConfigPlaceholder
                     ELSE IF placeholder = "False" THEN NoPlaceholder
                     ELSE placeholder,
     quote_all_values |-> quote_all_values,
     quote_all_col_refs |-> TRUE,
     table |-> table,
     root |-> root]

WhereMixin_init(C, s, where_predicate) ==
    add_cond(Append(C, WhereCondition(s, where_predicate, FALSE)), Len(C) + 1, "AND", FALSE)


(***************************************************************************)
(* The calls on Insert, Replace, Update, Delete, Union and Lock.  s is the *)
(* statement; a builder call leaves nothing in out, sql() what it returned *)
(* or raised.  Insert.sqlp reads self._columns through the name col_names: *)
(* the call leaves in self._columns what that list holds afterwards.       *)
(***************************************************************************)
Built(s, st) ==
    /\ stmts' = [stmts EXCEPT ![s] = st]
    /\ out' = NoOutput
    /\ UNCHANGED conds

Insert_into_table(s, table_name) == Built(s, [stmts[s] EXCEPT !.table_name = table_name])

Insert_column(s, name) == Built(s, [stmts[s] EXCEPT !.columns = Append(@, name)])

Insert_select_call(s, stmt) == Built(s, [stmts[s] EXCEPT !.select = stmt])

Insert_set_batch_value(s, values) == Built(s, [stmts[s] EXCEPT !.batch_values = @ \o values])

\* set_value(field, value) and set_raw_value(field, value, value_params),
\* the raw value not None
SetValuesMixin_set_value(s, field, value) ==
    Built(s, [stmts[s] EXCEPT !.values = DictSet(@, [field |-> field, value |-> value])])

SetValuesMixin_set_raw_value(s, field, value, value_params) ==
    Built(s, [stmts[s] EXCEPT
                 !.values_raw = DictSet(@, [field |-> field, value |-> value,
                                            params |-> value_params])])

Rendered(s, r) ==
    /\ out' = [kind |-> "stmt_sql", stmt |-> s] @@ r
    /\ stmts' = [stmts EXCEPT ![s].columns = r.columns]
    /\ UNCHANGED conds

Insert_sql_call(s) == Rendered(s, Insert_sql(stmts[s]))

\* Delete.from_table / Update.table, order_by and limit
Delete_from_table(s, name) == Built(s, [stmts[s] EXCEPT !.table_names = Append(@, name)])
Delete_order_by(s, name) == Built(s, [stmts[s] EXCEPT !.orderby_conds = Append(@, name)])
Delete_limit(s, row_count) == Built(s, [stmts[s] EXCEPT !.limit = row_count])

\* JoinMixin.join(table_factor, join_cond), an INNER join on one column
JoinMixin_join(s, table_factor, join_cond) ==
    Built(s, [stmts[s] EXCEPT
                 !.join_refs = Append(@, [join_type |-> "INNER JOIN",
                                          table_factor |-> table_factor,
                                          join_cond |-> join_cond])])

Delete_sql_call(s) ==
    /\ out' = [kind |-> "stmt_sql", stmt |-> s] @@ Delete_sql(stmts, conds, s)
    /\ UNCHANGED <<stmts, conds>>

Update_sql_call(s) ==
    /\ out' = [kind |-> "stmt_sql", stmt |-> s] @@ Update_sql(stmts, conds, s)
    /\ UNCHANGED <<stmts, conds>>

Union_union(s, stmt) == Built(s, [stmts[s] EXCEPT !.selects = Append(@, stmt)])
Union_order_by(s, name) == Built(s, [stmts[s] EXCEPT !.orderby_conds = Append(@, name)])
Union_limit(s, row_count, offset) ==
    Built(s, [stmts[s] EXCEPT !.limit = row_count, !.offset = offset])

\* stmt(): out holds what the call returned or raised
Stmt_call_call(s) ==
    /\ out' = [kind |-> "call", stmt |-> s] @@ Stmt_call(stmts, conds, s)
    /\ stmts' = [stmts EXCEPT ![s].columns = out'.columns]
    /\ UNCHANGED conds

\* Stmt.set_option(value)
Stmt_set_option(s, value) == Built(s, [stmts[s] EXCEPT !.query_options = Append(@, value)])

Union_sql_call(s) ==
    /\ out' = [kind |-> "stmt_sql", stmt |-> s] @@ Union_sql(stmts[s])
    /\ UNCHANGED <<stmts, conds>>

Lock_sql_call(s) ==
    /\ out' = [kind |-> "stmt_sql", stmt |-> s] @@ Lock_get_lock(stmts[s])
    /\ UNCHANGED <<stmts, conds>>

\* The constructors.  Builder is a statement of class kind with every
\* collection empty and every option at its default.
Builder(kind, placeholder, quote_all_values, root) ==
    Stmt_init(placeholder, quote_all_values, "", root)
    @@ [kind |-> kind, table_name |-> "", columns |-> <<>>, values |-> <<>>,
        values_raw |-> <<>>, batch_values |-> <<>>, select |-> NoSelect, replace |-> FALSE,
        ignore_error |-> FALSE, table_names |-> <<>>, orderby_conds |-> <<>>, limit |-> 0,
        allow_unqualified_delete |-> FALSE, selects |-> <<>>, distinct |-> "None",
        name |-> "", timeout |-> 0, query_options |-> <<>>, offset |-> 0,
        join_refs |-> <<>>, select_allow_placeholders |-> FALSE]

Insert_init(table_name, placeholder, quote_all_values) ==
    [Builder("Insert", placeholder, quote_all_values, 0) EXCEPT !.table_name = table_name]

Replace_init(table_name, placeholder, quote_all_values) ==
    [Builder("Replace", placeholder, quote_all_values, 0)
        EXCEPT !.table_name = table_name, !.replace = TRUE]

Update_init(table_name, placeholder) ==
    [Builder("Update", placeholder, FALSE, 1)
        EXCEPT !.table_names = IF table_name = "" THEN <<>> ELSE <<table_name>>]

Delete_init(table_name, allow_unqualified_delete, placeholder) ==
    [Builder("Delete", placeholder, FALSE, 1)
        EXCEPT !.table_names = IF table_name = "" THEN <<>> ELSE <<table_name>>,
               !.allow_unqualified_delete = allow_unqualified_delete]

Select_init(table_name, placeholder) ==
    [Builder("Select", placeholder, FALSE, 1) EXCEPT !.table = table_name]

Union_init(distinct, placeholder) ==
    [Builder("Union", placeholder, FALSE, 0) EXCEPT !.distinct = distinct]

Lock_init(name, timeout, placeholder) ==
    [Builder("Lock", placeholder, FALSE, 0) EXCEPT !.name = name, !.timeout = timeout]

(***************************************************************************)
(* What the specifications share.                                          *)
(***************************************************************************)
\* The conditions opened and the predicates held beyond construction, over
\* the conditions of statement 1.
NBuilt(C) ==
    LET outer == {c \in DOMAIN C : C[c].stmt = 1}
        n[i \in 0..Len(C)] ==
            IF i = 0 THEN 0
            ELSE IF i \notin outer THEN n[i - 1]
            ELSE n[i - 1] + Len(C[i].values) + Len(C[i].values_raw)
                          + Len(C[i].raw_exprs) + Len(C[i].selects)
    IN  (Cardinality(outer) - 2) + n[Len(C)]

Predicates == {"AND", "OR"}

\* the conditions of statement 1
Outer == {c \in DOMAIN conds : conds[c].stmt = 1}

\* the empty expression
EmptyExpr == [expr |-> <<>>, params |-> None]

\* x = ? bound to 'e'
BoundExpr == [expr |-> <<T("x"), T("="), Hole("?", "e")>>, params |-> Some(<<"e">>)]

(***************************************************************************)
(* Specification Spec: the shape of condition trees.  One statement,       *)
(* Select('t1'); conditions of either predicate, negated or not, are       *)
(* opened under any condition, and values and raw expressions (the empty   *)
(* one among them) are registered on any condition.                        *)
(***************************************************************************)
ShapeValues ==
    { [field |-> "c1", value |-> VStr("a"), op |-> "="],
      [field |-> "c2", value |-> VInt(3), op |-> "="] }

ShapeExprs == {EmptyExpr, BoundExpr}

Init ==
    /\ stmts = << Stmt_init("None", FALSE, "t1", 1) >>
    /\ conds = WhereMixin_init(<<>>, 1, "OR")
    /\ out = NoOutput

Next ==
    \/ \E c \in DOMAIN conds, wp \in Predicates, negate \in BOOLEAN :
          /\ NBuilt(conds) < MaxBuild
          /\ WhereCondition_add_cond(c, wp, negate)
    \/ \E c \in DOMAIN conds, e \in ShapeValues :
          /\ WhereCondition_where_value(c, e.field, e.value, e.op)
          /\ NBuilt(conds') <= MaxBuild
    \/ \E c \in DOMAIN conds, e \in ShapeExprs :
          /\ NBuilt(conds) < MaxBuild
          /\ WhereCondition_where_expr(c, e.expr, e.params)
    \/ Select_sql_call(1)

Spec == Init /\ [][Next]_vars

(***************************************************************************)
(* Specification SpecKinds: the four kinds of predicate.  Select('t1'),    *)
(* with the placeholder configured or disabled, and Select('t2'), which    *)
(* the conditions of the first use as a subquery and which may hold a      *)
(* value predicate of its own.                                             *)
(***************************************************************************)
TreeValues ==
    { [field |-> "c1", value |-> VStr("a"), op |-> "="],
      [field |-> "c2", value |-> VList(<<VStr("a"), VStr("b")>>), op |-> "="] }

\* PASSWORD(?) bound to 'pw'
TreeRawValues ==
    { [field |-> "c1", value |-> <<T("PASSWORD"), T("("), Hole("?", "pw"), T(")")>>,
       op |-> "=", params |-> Some(<<VStr("pw")>>)] }

InitKinds ==
    /\ \E placeholder \in {"None", "False"} :
          stmts = << Stmt_init(placeholder, FALSE, "t1", 1),
                     Stmt_init("None", FALSE, "t2", 3) >>
    /\ conds = WhereMixin_init(WhereMixin_init(<<>>, 1, "OR"), 2, "OR")
    /\ out = NoOutput

NextKinds ==
    \/ \E c \in Outer, wp \in Predicates :
          /\ NBuilt(conds) < MaxKinds
          /\ WhereCondition_add_cond(c, wp, FALSE)
    \/ \E c \in Outer, e \in TreeValues :
          /\ WhereCondition_where_value(c, e.field, e.value, e.op)
          /\ NBuilt(conds') <= MaxKinds
    \/ \E c \in Outer, e \in TreeRawValues :
          /\ WhereCondition_where_raw_value(c, e.field, e.value, e.op, e.params)
          /\ NBuilt(conds') <= MaxKinds
    \/ \E c \in Outer :
          /\ NBuilt(conds) < MaxKinds
          /\ WhereCondition_where_expr(c, BoundExpr.expr, BoundExpr.params)
    \/ \E c \in Outer :
          /\ WhereCondition_where_select(c, "c1", 2, "IN", None)
          /\ NBuilt(conds') <= MaxKinds
    \/ WhereMixin_where_value(2, "c1", VStr("s"), "=")
    \/ Select_sql_call(1)

SpecKinds == InitKinds /\ [][NextKinds]_vars

(***************************************************************************)
(* SpecValue: one statement under each placeholder and quoting setting,    *)
(* value predicates over scalars and sequences under every operator,       *)
(* rendered by the active condition and by the statement.                  *)
(***************************************************************************)
Operators == {"=", "<>", "IN", "NOT IN", ">"}

Values ==
    { VNull, VInt(1), VStr("a"), VStr("NULL"), VStr("NOT NULL"),
      VList(<<>>), VList(<<VInt(1)>>), VList(<<VNull>>), VList(<<VStr("NULL")>>),
      VList(<<VStr("a")>>), VList(<<VInt(1), VInt(2)>>), VList(<<VStr("a"), VNull>>) }

\* every value under every operator on c1; two more predicates on c2
ValuePreds ==
    {<<"c1", value, operator>> : value \in Values, operator \in Operators}
    \cup { <<"c2", VList(<<VInt(1), VInt(2)>>), "<>">>, <<"c2", VNull, "<>">>,
           <<"c2", VList(<<VStr("NOT NULL")>>), "IN">> }

InitValue ==
    /\ \E placeholder \in {"None", "False"} : \E quote_all_values \in BOOLEAN :
          stmts = <<Stmt_init(placeholder, quote_all_values, "t1", 1)>>
    /\ conds = WhereMixin_init(<<>>, 1, "OR")
    /\ out = NoOutput

NextValue ==
    \/ \E e \in ValuePreds :
          /\ WhereMixin_where_value(1, e[1], e[2], e[3])
          /\ NBuilt(conds') <= MaxValues
    \/ \E param_values \in {<<>>, <<"p0">>} : WhereCondition_sql_call(active(1), param_values)
    \/ Select_sql_call(1)

SpecValue == InitValue /\ [][NextValue]_vars

(***************************************************************************)
(* SpecStmt: one statement under each where_predicate, built through the   *)
(* statement's own methods only: groups opened by where_and, where_or and  *)
(* add_cond, predicates sent to the active condition.                      *)
(***************************************************************************)
StmtValues ==
    { <<"c1", VInt(1), "=">>, <<"c1", VInt(2), "<>">>, <<"c2", VInt(1), "=">> }

InitStmt ==
    /\ stmts = <<Stmt_init("None", FALSE, "t1", 1)>>
    /\ \E where_predicate \in Predicates : conds = WhereMixin_init(<<>>, 1, where_predicate)
    /\ out = NoOutput

NextStmt ==
    \/ \E negate \in BOOLEAN :
          NBuilt(conds) < MaxStmt /\ WhereMixin_where_and(1, negate)
    \/ \E negate \in BOOLEAN :
          NBuilt(conds) < MaxStmt /\ WhereMixin_where_or(1, negate)
    \/ \E where_predicate \in {"None", "OR"} :
          NBuilt(conds) < MaxStmt /\ WhereMixin_add_cond(1, where_predicate)
    \/ \E e \in StmtValues :
          /\ WhereMixin_where_value(1, e[1], e[2], e[3])
          /\ NBuilt(conds') <= MaxStmt
    \/ NBuilt(conds) < MaxStmt /\ WhereMixin_where_expr(1, EmptyExpr.expr, EmptyExpr.params)
    \/ \E e \in TreeRawValues :
          /\ WhereMixin_where_raw_value(1, e.field, e.value, e.op, e.params)
          /\ NBuilt(conds') <= MaxStmt
    \/ Select_sql_call(1)

SpecStmt == InitStmt /\ [][NextStmt]_vars

(***************************************************************************)
(* SpecRaw: raw-value predicates.  One statement with the placeholder      *)
(* configured or disabled; where_raw_value called on the active condition  *)
(* (the implicit AND group, or an OR group opened after it) with a field   *)
(* or a mapping, raw values that may be None, and bind params.             *)
(***************************************************************************)
Now == <<T("NOW()")>>

\* PASSWORD(?) bound to 'pw'; BETWEEN ? AND ? bound to 1 and 'x'; NOW();
\* None; mappings with None as the last and as the first raw value, or none
RawCalls ==
    { [fd |-> Field("c1"), raw |-> Some(<<T("PASSWORD"), T("("), Hole("?", "pw"), T(")")>>),
       op |-> "=", params |-> Some(<<VStr("pw")>>)],
      [fd |-> Field("c2"), raw |-> Some(<<Hole("?", "1"), T("AND"), Hole("?", "x")>>),
       op |-> "BETWEEN", params |-> Some(<<VInt(1), VStr("x")>>)],
      [fd |-> Field("c3"), raw |-> Some(Now), op |-> "=", params |-> None],
      [fd |-> Field("c1"), raw |-> None, op |-> "=", params |-> None],
      [fd |-> Mapping(<<[f |-> "c1", v |-> Some(Now)], [f |-> "c2", v |-> None]>>),
       raw |-> None, op |-> "=", params |-> None],
      [fd |-> Mapping(<<[f |-> "c3", v |-> None], [f |-> "c1", v |-> Some(Now)]>>),
       raw |-> None, op |-> "=", params |-> None],
      [fd |-> Mapping(<<[f |-> "c1", v |-> Some(Now)], [f |-> "c3", v |-> Some(Now)]>>),
       raw |-> None, op |-> "=", params |-> None] }

InitRaw ==
    /\ \E placeholder \in {"None", "False"} :
          stmts = <<Stmt_init(placeholder, FALSE, "t1", 1)>>
    /\ conds = WhereMixin_init(<<>>, 1, "OR")
    /\ out = NoOutput

NextRaw ==
    \/ /\ NBuilt(conds) < MaxRaw
       /\ WhereMixin_where_or(1, FALSE)
    \/ \E e \in RawCalls :
          /\ WhereCondition_where_raw_value_call(active(1), e.fd, e.raw, e.op, e.params)
          /\ NBuilt(conds') <= MaxRaw
    \/ \E param_values \in {<<>>, <<"p0">>} : WhereCondition_sql_call(active(1), param_values)
    \/ Select_sql_call(1)

SpecRaw == InitRaw /\ [][NextRaw]_vars

(***************************************************************************)
(* SpecParam: Stmt.parameterize_values on its own.  One statement under    *)
(* each placeholder setting (the configured one, a custom one, disabled)   *)
(* and each quoting setting; scalars of every type pickle tells apart and  *)
(* sequences of them; each sink absent or a list the caller already wrote. *)
(***************************************************************************)
ParamScalars ==
    { VNull, VBool(TRUE), VBool(FALSE), VInt(0), VInt(7), VFloat(15),
      VStr("a"), VStr("it's"), VStr("NULL"), VStr("7"),
      VDateTime(2024, 1, 5, 9, 3, 7), VDate(2024, 11, 25), VTime(13, 0, 59),
      VObject("1.50") }

ParamSequences ==
    { VList(<<>>), VList(<<VStr("a"), VInt(7)>>), VList(<<VNull, VStr("it's"), VStr("a")>>),
      VList(<<VDate(2024, 11, 25), VBool(TRUE)>>) }

\* None, or a list of at most MaxSink entries x
SinksOf(x) == {None} \cup { Some([i \in 1..n |-> x]) : n \in 0..MaxSink }

InitParam ==
    /\ \E placeholder \in {"None", "False", "%s"} : \E quote_all_values \in BOOLEAN :
          stmts = <<Stmt_init(placeholder, quote_all_values, "t1", 1)>>
    /\ conds = WhereMixin_init(<<>>, 1, "OR")
    /\ out = NoOutput

NextParam ==
    \E list_or_value \in ParamScalars \cup ParamSequences :
    \E inline_values \in SinksOf(T("x")), param_values \in SinksOf("p0") :
        Stmt_parameterize_values_call(1, list_or_value, inline_values, param_values)

SpecParam == InitParam /\ [][NextParam]_vars

(***************************************************************************)
(* SpecNest: trees of conditions.  One statement; conditions created on    *)
(* their own and attached with add_cond(cond) in any order, conditions     *)
(* created by add_cond(where_predicate=...) below any condition, and by    *)
(* where_and and where_or below the root; at most MaxNest conditions.  A   *)
(* condition is attached once, and never below itself.                     *)
(***************************************************************************)
\* the conditions that hold c as a subcondition
Parents(C, c) == {p \in DOMAIN C : \E i \in DOMAIN C[p].conds : C[p].conds[i] = c}

\* the top of the tree c is in (c itself when c is attached to nothing)
RECURSIVE Top(_, _)
Top(C, c) == IF Parents(C, c) = {} THEN c ELSE Top(C, CHOOSE p \in Parents(C, c) : TRUE)

InitNest ==
    /\ stmts = <<Stmt_init("None", FALSE, "t1", 1)>>
    /\ conds = WhereMixin_init(<<>>, 1, "OR")
    /\ out = NoOutput

NextNest ==
    \/ /\ Len(conds) < MaxNest
       /\ WhereCondition_init(1, "AND")
    \/ \E c \in DOMAIN conds, cond \in DOMAIN conds :
          /\ Parents(conds, cond) = {}
          /\ cond # stmts[1].root
          /\ Top(conds, c) # cond
          /\ WhereCondition_add_cond_existing(c, cond)
    \/ \E c \in DOMAIN conds :
          /\ Len(conds) < MaxNest
          /\ WhereCondition_add_cond(c, "OR", FALSE)
    \/ /\ Len(conds) < MaxNest
       /\ WhereMixin_where_and(1, FALSE)
    \/ /\ Len(conds) < MaxNest
       /\ WhereMixin_where_or(1, FALSE)

SpecNest == InitNest /\ [][NextNest]_vars

(***************************************************************************)
(* SpecBuilders: one statement of each class (Select, Insert, Replace,     *)
(* Update, Delete, Union, Lock), with the placeholder configured or        *)
(* disabled, built by the calls of its class and rendered by sql().  At    *)
(* most MaxHeld tables, columns, values, rows, options and predicates.     *)
(***************************************************************************)
Held(st, C) ==
    Len(st.columns) + Len(st.values) + Len(st.values_raw) + Len(st.batch_values)
    + (IF st.select.given THEN 1 ELSE 0) + Len(st.table_names) + Len(st.orderby_conds)
    + (IF st.limit # 0 THEN 1 ELSE 0) + Len(st.selects)
    + Len(st.query_options) + Len(st.join_refs)
    + (IF C = <<>> THEN 0 ELSE NBuilt(C))

Builders ==
    UNION { { Insert_init(table_name, placeholder, FALSE) : table_name \in {"", "t1"} }
            \cup { Replace_init("t1", placeholder, TRUE),
                   Update_init("t1", placeholder),
                   Select_init("t1", placeholder) }
            \cup { Delete_init(table_name, allow, placeholder) :
                      table_name \in {"", "t1"}, allow \in BOOLEAN }
            \cup { Union_init(distinct, placeholder) : distinct \in {"None", "False"} }
            \cup { Lock_init(name, timeout, placeholder) : name \in {"", "n"}, timeout \in {0, 5} }
          : placeholder \in {"None", "False"} }

\* UPPER(?) bound to 'pw'; NOW()
SetRawValues ==
    { [value |-> Hole("UPPER(?)", "pw"), params |-> Some(<<VStr("pw")>>)],
      [value |-> T("NOW()"), params |-> None] }

\* one row; two rows
BatchValues ==
    { <<VList(<<VStr("a"), VInt(7)>>)>>,
      <<VList(<<VNull, VStr("b")>>), VList(<<VStr("c"), VBool(TRUE)>>)>> }

IsA(s, kinds) == stmts[s].kind \in kinds

InitBuilders ==
    /\ \E st \in Builders :
          /\ stmts = <<st>>
          /\ conds = IF st.root = 0 THEN <<>> ELSE WhereMixin_init(<<>>, 1, "OR")
    /\ out = NoOutput

NextBuilders ==
    \/ /\ IsA(1, {"Insert", "Replace"})
       /\ \/ Insert_into_table(1, "t1")
          \/ \E name \in {"c1", "c2"} : Insert_column(1, name)
          \/ \E values \in BatchValues : Insert_set_batch_value(1, values)
          \/ \E stmt \in {SelectText(<<T("SELECT 1")>>), SelectObject} : Insert_select_call(1, stmt)
       /\ Held(stmts'[1], conds') <= MaxHeld
    \/ /\ IsA(1, {"Insert", "Replace", "Update"})
       /\ \/ \E field \in {"c1", "c2"}, value \in {VStr("a"), VInt(7)} :
                SetValuesMixin_set_value(1, field, value)
          \/ \E e \in SetRawValues : SetValuesMixin_set_raw_value(1, "c3", e.value, e.params)
       /\ Held(stmts'[1], conds') <= MaxHeld
    \/ /\ IsA(1, {"Select", "Update", "Delete"})
       /\ \/ \E value \in {VStr("a"), VInt(7), VList(<<>>)} :
                WhereMixin_where_value(1, "c1", value, "=")
          \/ WhereMixin_where_expr(1, EmptyExpr.expr, EmptyExpr.params)
          \/ \E e \in TreeRawValues :
                WhereMixin_where_raw_value(1, e.field, e.value, e.op, e.params)
          \/ WhereMixin_where_or(1, FALSE)
       /\ Held(stmts'[1], conds') <= MaxHeld
    \/ /\ IsA(1, {"Update", "Delete"})
       /\ \/ Delete_from_table(1, "t2")
          \/ Delete_order_by(1, "c1")
          \/ Delete_limit(1, 5)
       /\ Held(stmts'[1], conds') <= MaxHeld
    \/ /\ IsA(1, {"Union"})
       /\ \E stmt \in {SelectText(<<T("SELECT 1")>>), SelectObject} : Union_union(1, stmt)
       /\ Held(stmts'[1], conds') <= MaxHeld
    \/ IsA(1, {"Insert", "Replace"}) /\ Insert_sql_call(1)
    \/ IsA(1, {"Update"}) /\ Update_sql_call(1)
    \/ IsA(1, {"Delete"}) /\ Delete_sql_call(1)
    \/ IsA(1, {"Select"}) /\ Select_sql_call(1)
    \/ /\ IsA(1, {"Select", "Update", "Delete"})
       /\ \E param_values \in {<<>>, <<"p0">>} :
             WhereCondition_sql_call(stmts[1].root, param_values)
    \/ IsA(1, {"Union"}) /\ Union_sql_call(1)
    \/ IsA(1, {"Lock"}) /\ Lock_sql_call(1)

SpecBuilders == InitBuilders /\ [][NextBuilders]_vars

(***************************************************************************)
(* SpecExpr: raw expressions.  One statement with the placeholder          *)
(* configured or disabled; where_expr called on the active condition (the  *)
(* implicit AND group, or an OR group opened after it) with one            *)
(* expression or a list of expressions, with and without expr_params.  At  *)
(* most MaxExpr groups and expressions.                                    *)
(***************************************************************************)
\* a = ? with 1; b = ? with 'e'; NOW() with nothing; the lists [a = ?, b = ?]
\* and [a = ?, a = ?] with (1, 'e'), [NOW()] with nothing, [] with (1,)
ExprCalls ==
    { [el |-> Expr(<<T("a = ?")>>), params |-> Some(<<VInt(1)>>)],
      [el |-> Expr(<<T("b = ?")>>), params |-> Some(<<VStr("e")>>)],
      [el |-> Expr(<<T("NOW()")>>), params |-> None],
      [el |-> ExprList(<< <<T("a = ?")>>, <<T("b = ?")>> >>),
       params |-> Some(<<VInt(1), VStr("e")>>)],
      [el |-> ExprList(<< <<T("a = ?")>>, <<T("a = ?")>> >>),
       params |-> Some(<<VInt(1), VStr("e")>>)],
      [el |-> ExprList(<< <<T("NOW()")>> >>), params |-> None],
      [el |-> ExprList(<<>>), params |-> Some(<<VInt(1)>>)] }

InitExpr ==
    /\ \E placeholder \in {"None", "False"} :
          stmts = <<Stmt_init(placeholder, FALSE, "t1", 1)>>
    /\ conds = WhereMixin_init(<<>>, 1, "OR")
    /\ out = NoOutput

NextExpr ==
    \/ /\ NBuilt(conds) < MaxExpr
       /\ WhereMixin_where_or(1, FALSE)
    \/ \E e \in ExprCalls :
          /\ WhereCondition_where_expr_call(active(1), e.el, e.params)
          /\ NBuilt(conds') <= MaxExpr
    \/ \E param_values \in {<<>>, <<"p0">>} : WhereCondition_sql_call(active(1), param_values)
    \/ Select_sql_call(1)

SpecExpr == InitExpr /\ [][NextExpr]_vars

(***************************************************************************)
(* SpecMap: the mapping forms.  One statement; where_value and             *)
(* where_raw_value called on the active condition (the implicit AND group, *)
(* or an OR group opened after it) with a field or with a mapping, the     *)
(* operator and the value_params given or left at their defaults.  No raw  *)
(* value is None.  At most MaxMap groups and predicates.                   *)
(***************************************************************************)
\* c1 = 'a'; {c1: 'a', c2: 7} under = and under <>; {c2: 'a', c1: 'a'} under >
ValueCalls ==
    { [fd |-> Field("c1"), value |-> VStr("a"), op |-> "="],
      [fd |-> Mapping(<<[f |-> "c1", v |-> VStr("a")], [f |-> "c2", v |-> VInt(7)]>>),
       value |-> VNull, op |-> "="],
      [fd |-> Mapping(<<[f |-> "c1", v |-> VStr("a")], [f |-> "c2", v |-> VInt(7)]>>),
       value |-> VNull, op |-> "<>"],
      [fd |-> Mapping(<<[f |-> "c2", v |-> VStr("a")], [f |-> "c1", v |-> VStr("a")]>>),
       value |-> VNull, op |-> ">"] }

\* c1 <> NOW(); {c1: NOW(), c3: NOW()} under the defaults and under <>;
\* {c1: PASSWORD(?)} with the bind param 'pw'
RawMapCalls ==
    { [fd |-> Field("c1"), raw |-> Some(Now), op |-> "<>", params |-> None],
      [fd |-> Mapping(<<[f |-> "c1", v |-> Some(Now)], [f |-> "c3", v |-> Some(Now)]>>),
       raw |-> None, op |-> "=", params |-> None],
      [fd |-> Mapping(<<[f |-> "c1", v |-> Some(Now)], [f |-> "c3", v |-> Some(Now)]>>),
       raw |-> None, op |-> "<>", params |-> None],
      [fd |-> Mapping(<<[f |-> "c1",
                         v |-> Some(<<T("PASSWORD"), T("("), Hole("?", "pw"), T(")")>>)]>>),
       raw |-> None, op |-> "=", params |-> Some(<<VStr("pw")>>)] }

InitMap ==
    /\ stmts = <<Stmt_init("None", FALSE, "t1", 1)>>
    /\ conds = WhereMixin_init(<<>>, 1, "OR")
    /\ out = NoOutput

NextMap ==
    \/ /\ NBuilt(conds) < MaxMap
       /\ WhereMixin_where_or(1, FALSE)
    \/ \E e \in ValueCalls :
          /\ WhereCondition_where_value_call(active(1), e.fd, e.value, e.op)
          /\ NBuilt(conds') <= MaxMap
    \/ \E e \in RawMapCalls :
          /\ WhereCondition_where_raw_value_call(active(1), e.fd, e.raw, e.op, e.params)
          /\ NBuilt(conds') <= MaxMap
    \/ Select_sql_call(1)

SpecMap == InitMap /\ [][NextMap]_vars

(***************************************************************************)
(* SpecCall: statements called and rendered.  One statement of class       *)
(* Insert (select_allow_placeholders set or not), Update, Delete, Select   *)
(* or Union (distinct None, False or True), with the placeholder           *)
(* configured or disabled, built by the calls of its class, joins, query   *)
(* options, ORDER BY and LIMIT among them, then rendered by sql() or       *)
(* called.  A Select object given to Insert.select or Union.union holds in *)
(* items what its own sql() returns, each placeholder with the value bound *)
(* to it.  At most MaxCall tables, joins, columns, values, options,        *)
(* statements and predicates.                                              *)
(***************************************************************************)
\* SELECT 1 as text; Select('t2'); Select('t2').where_value('c1', 's')
SelectStmts ==
    { SelectText(<<T("SELECT 1")>>),
      [SelectObject EXCEPT !.items = Words(<<"SELECT", "*", "FROM", "t2">>)],
      [SelectObject EXCEPT !.items = Words(<<"SELECT", "*", "FROM", "t2", "WHERE", "^c1^", "=">>)
                                       \o <<Hole("?", "s")>>] }

CallBuilders ==
    UNION { { [Insert_init("t1", placeholder, FALSE) EXCEPT !.select_allow_placeholders = allow] :
                 allow \in BOOLEAN }
            \cup { Update_init("t1", placeholder),
                   Delete_init("t1", FALSE, placeholder),
                   Select_init("t1", placeholder) }
            \cup { Union_init(distinct, placeholder) : distinct \in {"None", "False", "True"} }
          : placeholder \in {"None", "False"} }

InitCall ==
    /\ \E st \in CallBuilders :
          /\ stmts = <<st>>
          /\ conds = IF st.root = 0 THEN <<>> ELSE WhereMixin_init(<<>>, 1, "OR")
    /\ out = NoOutput

NextCall ==
    \/ /\ IsA(1, {"Insert"})
       /\ \/ Insert_column(1, "c1")
          \/ \E stmt \in SelectStmts : Insert_select_call(1, stmt)
       /\ Held(stmts'[1], conds') <= MaxCall
    \/ /\ IsA(1, {"Insert", "Update"})
       /\ SetValuesMixin_set_value(1, "c1", VStr("a"))
       /\ Held(stmts'[1], conds') <= MaxCall
    \/ /\ IsA(1, {"Select", "Update", "Delete"})
       /\ \/ \E value \in {VStr("a"), VList(<<>>)} : WhereMixin_where_value(1, "c1", value, "=")
          \/ WhereMixin_where_expr(1, EmptyExpr.expr, EmptyExpr.params)
       /\ Held(stmts'[1], conds') <= MaxCall
    \/ /\ IsA(1, {"Update", "Delete"})
       /\ \/ Delete_from_table(1, "t2")
          \/ JoinMixin_join(1, "t3", "c1")
          \/ Delete_order_by(1, "c1")
          \/ Delete_limit(1, 5)
       /\ Held(stmts'[1], conds') <= MaxCall
    \/ /\ IsA(1, {"Union"})
       /\ \/ \E stmt \in SelectStmts : Union_union(1, stmt)
          \/ Stmt_set_option(1, "SQL_NO_CACHE")
          \/ Union_order_by(1, "a")
          \/ \E offset \in {0, 2} : Union_limit(1, 5, offset)
       /\ Held(stmts'[1], conds') <= MaxCall
    \/ IsA(1, {"Insert"}) /\ Insert_sql_call(1)
    \/ IsA(1, {"Update"}) /\ Update_sql_call(1)
    \/ IsA(1, {"Delete"}) /\ Delete_sql_call(1)
    \/ IsA(1, {"Select"}) /\ Select_sql_call(1)
    \/ IsA(1, {"Union"}) /\ Union_sql_call(1)
    \/ Stmt_call_call(1)

SpecCall == InitCall /\ [][NextCall]_vars

(***************************************************************************)
(* Helpers of the properties.                                              *)
(***************************************************************************)
ParamLists == {<<>>, <<"p0">>}

\* what a call appended to a list that held `given`
Appended(given, pv) == SubSeq(pv, Len(given) + 1, Len(pv))
KeepsGiven(given, pv) == Len(pv) >= Len(given) /\ SubSeq(pv, 1, Len(given)) = given

Parens(toks) == <<T("(")>> \o toks \o <<T(")")>>

\* the condition holds no predicate of any kind, nor does any condition below it
RECURSIVE HoldsNothing(_, _)
HoldsNothing(C, c) ==
    /\ C[c].values = <<>> /\ C[c].values_raw = <<>>
    /\ C[c].raw_exprs = <<>> /\ C[c].selects = <<>>
    /\ \A i \in DOMAIN C[c].conds : HoldsNothing(C, C[c].conds[i])

\* the number of conditions on the longest chain below c
RECURSIVE Height(_, _)
Height(C, c) ==
    LET h[i \in 0..Len(C[c].conds)] ==
            IF i = 0 THEN 0
            ELSE LET k == 1 + Height(C, C[c].conds[i])
                 IN  IF k > h[i - 1] THEN k ELSE h[i - 1]
    IN  h[Len(C[c].conds)]

\* the concatenation of a sequence of sequences
RECURSIVE Flatten(_)
Flatten(seqs) == IF seqs = <<>> THEN <<>> ELSE Head(seqs) \o Flatten(Tail(seqs))

\* the placeholder tokens of a text, left to right
IsPlaceholderToken(t) == t.s = ConfigPlaceholder
PlaceholderTokens(toks) == SelectSeq(toks, IsPlaceholderToken)

\* the i-th placeholder token of the text stands for the i-th value of params,
\* and there are as many of the one as of the other
Aligned(toks, params) ==
    LET ph == PlaceholderTokens(toks)
    IN  /\ Len(ph) = Len(params)
        /\ \A i \in DOMAIN ph : ph[i].bind = <<params[i]>>

Acc0 == [sql |-> <<>>, pv |-> <<>>, err |-> ""]

\* statement s has a placeholder configured, and so has every statement that a
\* subquery predicate of its conditions names
Parameterized(s) ==
    /\ stmts[s].placeholder # NoPlaceholder
    /\ \A c \in DOMAIN conds : \A i \in DOMAIN conds[c].selects :
          conds[c].stmt = s => stmts[conds[c].selects[i].stmt].placeholder # NoPlaceholder

C2_ParensIffSeveral ==
    \A c \in DOMAIN conds :
        LET acc == sql_fragments(stmts, conds, c, <<>>)
            r == WhereCondition_sql(stmts, conds, c, <<>>)
            joined == Join(acc.sql, <<T(conds[c].predicate)>>)
        IN  (~conds[c].negate /\ r.err = "" /\ ~r.none) =>
                IF Len(acc.sql) > 1 THEN r.text = Parens(joined) ELSE r.text = acc.sql[1]

(***************************************************************************)
(* C3.  Absence law: a condition that holds no predicate of any kind, and  *)
(* whose conditions below hold none, renders to None and appends nothing   *)
(* to the parameter list, under AND and under OR, at any depth.            *)
(***************************************************************************)
C3_Absence ==
    \A c \in DOMAIN conds : \A pv \in ParamLists :
        HoldsNothing(conds, c) =>
            LET r == WhereCondition_sql(stmts, conds, c, pv)
            IN  r.err = "" /\ r.none /\ r.text = <<>> /\ r.pv = pv

\* an OR condition with two levels of empty conditions below it was rendered
\* by the statement, which printed no WHERE
C3_Witness ==
    /\ out.kind = "stmt_sql" /\ out.err = ""
    /\ Text(out.text) = <<"SELECT", "*", "FROM", "t1">>
    /\ HoldsNothing(conds, stmts[1].root)
    /\ Height(conds, stmts[1].root) >= 3
    /\ \E c \in DOMAIN conds : conds[c].predicate = "AND" /\ conds[c].conds # <<>>

(***************************************************************************)
(* C4.  AND map against OR list.  A where_value call on an AND condition   *)
(* replaces, where it stands, the predicate of a field the condition       *)
(* already holds, and appends a predicate for a new field: the condition   *)
(* holds one predicate per distinct field, with the value and operator of  *)
(* the last call, at the position of the first.  On an OR condition every  *)
(* call appends, the field repeated or not.  The predicates are rendered   *)
(* in the order held and joined by the predicate of the condition.         *)
(***************************************************************************)
\* the value predicates of a condition without conditions below are its first
\* fragments, in the order held
ValuesRenderedInOrder(c) ==
    LET acc == sql_fragments(stmts, conds, c, <<>>)
        st == stmts[conds[c].stmt]
    IN  (conds[c].conds = <<>> /\ acc.err = "") =>
            /\ Len(acc.sql) >= Len(conds[c].values)
            /\ \A i \in DOMAIN conds[c].values :
                  Text(acc.sql[i]) = Text(sql_value(st, conds[c].values[i], Acc0).sql[1])
            /\ WhereCondition_sql(stmts, conds, c, <<>>).text
                   \in { Join(acc.sql, <<T(conds[c].predicate)>>),
                         Parens(Join(acc.sql, <<T(conds[c].predicate)>>)),
                         <<T("NOT")>> \o Parens(Join(acc.sql, <<T(conds[c].predicate)>>)) }

OnePerField(c) ==
    \A i, j \in DOMAIN conds[c].values :
        conds[c].values[i].field = conds[c].values[j].field => i = j

\* what one where_value call on the active condition does to its predicates
WhereValueStep(field, value, operator) ==
    LET a == active(1)
        old == conds[a].values
        new == conds'[a].values
        e == [field |-> field, value |-> value, op |-> operator]
    IN  IF conds[a].predicate = "AND" /\ \E i \in DOMAIN old : old[i].field = field
        THEN /\ Len(new) = Len(old)
             /\ \A i \in DOMAIN old : new[i] = IF old[i].field = field THEN e ELSE old[i]
        ELSE new = Append(old, e)

C4_MapAndList ==
    /\ [](\A c \in DOMAIN conds :
            /\ conds[c].predicate = "AND" => OnePerField(c)
            /\ ValuesRenderedInOrder(c))
    /\ [][\A e \in StmtValues :
            WhereMixin_where_value(1, e[1], e[2], e[3]) => WhereValueStep(e[1], e[2], e[3])]_vars

\* the statement rendered an OR group that holds the field c1 twice, beside the
\* implicit AND group that holds c1 once
C4_Witness ==
    /\ out.kind = "stmt_sql" /\ out.err = ""
    /\ \E c \in DOMAIN conds :
          /\ conds[c].predicate = "OR" /\ ~conds[c].negate
          /\ [i \in DOMAIN conds[c].values |-> conds[c].values[i].field] = <<"c1", "c1">>
          /\ conds[c].values[1] # conds[c].values[2]
          /\ Text(WhereCondition_sql(stmts, conds, c, <<>>).text)
                 \in { <<"(", "^c1^", "=", "1", "OR", "^c1^", "<>", "2", ")">>,
                       <<"(", "^c1^", "<>", "2", "OR", "^c1^", "=", "1", ")">> }
    /\ \E c \in DOMAIN conds :
          conds[c].predicate = "AND" /\ Len(conds[c].values) = 1

(***************************************************************************)
(* C5.  Fixed fragment order: a condition emits its fragments, and appends *)
(* their params, in this order: the conditions below it in the order they  *)
(* were opened (one that renders nothing contributes nothing), the value   *)
(* predicates, the raw-value predicates, the raw expressions, the subquery *)
(* predicates, each group in insertion order.                              *)
(***************************************************************************)
\* what each entry renders on its own: [sql, pv, err], sql of zero or one fragment
ChildParts(c) ==
    [i \in DOMAIN conds[c].conds |->
        sql_cond(Acc0, WhereCondition_sql(stmts, conds, conds[c].conds[i], <<>>))]
ValueParts(c) ==
    [i \in DOMAIN conds[c].values |->
        sql_value(stmts[conds[c].stmt], conds[c].values[i], Acc0)]
RawValueParts(c) ==
    [i \in DOMAIN conds[c].values_raw |->
        sql_value_raw(stmts[conds[c].stmt], conds[c].values_raw[i], Acc0)]
ExprParts(c) ==
    [i \in DOMAIN conds[c].raw_exprs |->
        sql_raw_expr(stmts[conds[c].stmt], conds[c].raw_exprs[i], Acc0)]
SelectParts(c) ==
    [i \in DOMAIN conds[c].selects |->
        sql_select(stmts, conds, stmts[conds[c].stmt], conds[c].selects[i], Acc0)]
PartsInOrder(c) ==
    ChildParts(c) \o ValueParts(c) \o RawValueParts(c) \o ExprParts(c) \o SelectParts(c)

C5_FragmentOrder ==
    \A c \in DOMAIN conds : \A pv \in ParamLists :
        LET acc == sql_fragments(stmts, conds, c, pv)
            parts == PartsInOrder(c)
        IN  acc.err = "" =>
                /\ acc.sql = Flatten([i \in DOMAIN parts |-> parts[i].sql])
                /\ acc.pv = pv \o Flatten([i \in DOMAIN parts |-> parts[i].pv])

\* the statement rendered a condition that holds a value, a raw expression and
\* a subquery predicate, each with a param
C5_Witness ==
    /\ out.kind = "stmt_sql" /\ out.err = "" /\ out.params.given
    /\ \E c \in Outer :
          /\ conds[c].values # <<>> /\ conds[c].raw_exprs # <<>> /\ conds[c].selects # <<>>
          /\ Len(sql_fragments(stmts, conds, c, <<>>).sql) = 3
          /\ Len(out.params.items) >= 3

(***************************************************************************)
(* C6.  IN collapsing.  A value that is a sequence of more than one        *)
(* element renders as the inline forms of its elements joined by commas in *)
(* parentheses, = becoming IN and <> becoming NOT IN; a sequence of one    *)
(* element renders as that element's inline form without parentheses, IN   *)
(* becoming = and NOT IN becoming <>; any other operator is kept.  (The    *)
(* NULL rule of C7 then reads the operator this leaves.)                   *)
(***************************************************************************)
\* the inline form of one element
InlineOf(st, item) ==
    parameterize_values(st, item,
        [inline |-> Some(<<>>), params |-> Some(<<>>), err |-> ""]).inline.items

\* the operator the sequence rule leaves
SequenceOp(e) ==
    IF ~IsSequence(e.value) THEN e.op
    ELSE IF Len(e.value.items) > 1
    THEN (CASE e.op = "=" -> "IN" [] e.op = "<>" -> "NOT IN" [] OTHER -> e.op)
    ELSE (CASE e.op = "IN" -> "=" [] e.op = "NOT IN" -> "<>" [] OTHER -> e.op)

NullTexts == {<<"NULL">>, <<"NOT NULL">>}

\* the operator the NULL rule leaves of op, before the right-hand side rhs
NullOp(op, rhs) ==
    IF Text(rhs) \in NullTexts
    THEN (CASE op = "=" -> "IS" [] op = "<>" -> "IS NOT" [] OTHER -> op)
    ELSE op

C7_NullFlip ==
    \A c \in DOMAIN conds : \A i \in DOMAIN conds[c].values :
        LET e == conds[c].values[i]
            st == stmts[conds[c].stmt]
            frag == sql_value(st, e, Acc0)
            f == frag.sql[1]
            op == f[2].s
            rhs == SubSeq(f, 3, Len(f))
        IN  frag.err = "" =>
                /\ (Text(rhs) \in NullTexts /\ SequenceOp(e) = "=") => op = "IS"
                /\ (Text(rhs) \in NullTexts /\ SequenceOp(e) = "<>") => op = "IS NOT"
                /\ (Text(rhs) \notin NullTexts \/ SequenceOp(e) \notin {"=", "<>"})
                       => op = SequenceOp(e)
                /\ e.value \in {VNull, VList(<<VNull>>)} => Text(rhs) = <<"NULL">>
                /\ (\E k \in DOMAIN rhs : rhs[k].bind # <<>>) => op = SequenceOp(e)
                /\ (e.value \in {VStr("NULL"), VStr("NOT NULL")}
                    /\ st.placeholder = NoPlaceholder /\ ~st.quote_all_values)
                       => Text(rhs) = <<e.value.s>>

\* the statement rendered where_value(c1, [None], 'NOT IN') as c1 IS NOT NULL
C7_Witness ==
    /\ out.kind = "stmt_sql" /\ out.err = ""
    /\ conds[active(1)].values = <<[field |-> "c1", value |-> VList(<<VNull>>), op |-> "NOT IN"]>>
    /\ Text(out.text) = <<"SELECT", "*", "FROM", "t1", "WHERE", "^c1^", "IS NOT", "NULL">>

(***************************************************************************)
(* C8.  A negated condition that renders at least one expression returns   *)
(* NOT ( joined expressions ), for one expression and for several, with    *)
(* no further pair of parentheses.                                         *)
(***************************************************************************)
C8_Negated ==
    \A c \in DOMAIN conds : \A pv \in ParamLists :
        LET acc == sql_fragments(stmts, conds, c, pv)
            r == WhereCondition_sql(stmts, conds, c, pv)
        IN  (conds[c].negate /\ acc.err = "" /\ acc.sql # <<>>) =>
                /\ r.err = "" /\ ~r.none
                /\ r.text = <<T("NOT"), T("(")>>
                            \o Join(acc.sql, <<T(conds[c].predicate)>>) \o <<T(")")>>

\* the statement rendered a negated condition that joins two expressions
C8_Witness ==
    /\ out.kind = "stmt_sql" /\ out.err = ""
    /\ \E c \in DOMAIN conds :
          /\ conds[c].negate
          /\ Len(sql_fragments(stmts, conds, c, <<>>).sql) = 2
          /\ Text(out.text) = <<"SELECT", "*", "FROM", "t1", "WHERE">>
                              \o Text(WhereCondition_sql(stmts, conds, c, <<>>).text)
          /\ out.text[6].s = "NOT" /\ out.text[7].s = "("

(***************************************************************************)
(* C9.  The WHERE condition of a statement is the join, by the statement's *)
(* where_predicate, of its groups that render text, in the order they were *)
(* opened.  The first group is the implicit AND group of construction; if  *)
(* it holds nothing it contributes no fragment and no parentheses: the     *)
(* statement renders as if the group were not there.                       *)
(***************************************************************************)
\* the texts of the groups of the root that render text, in order
GroupTexts(root) ==
    LET rendered == [i \in DOMAIN conds[root].conds |->
                        WhereCondition_sql(stmts, conds, conds[root].conds[i], <<>>)]
    IN  Flatten([i \in DOMAIN rendered |->
                    IF rendered[i].none \/ rendered[i].text = <<>>
                    THEN <<>> ELSE <<rendered[i].text>>])

C9_WhereGroups ==
    LET root == stmts[1].root
        first == conds[root].conds[1]
        r == Select_sql(stmts, conds, 1)
        gs == GroupTexts(root)
        joined == Join(gs, <<T(conds[root].predicate)>>)
        select == Words(<<"SELECT", "*", "FROM", "t1">>)
    IN  /\ conds[root].conds # <<>>
        /\ conds[first].predicate = "AND" /\ ~conds[first].negate
        /\ r.err = "" =>
              /\ gs = <<>> => r.text = select
              /\ Len(gs) = 1 => r.text \in { select \o <<T("WHERE")>> \o joined,
                                             select \o <<T("WHERE")>> \o Parens(joined) }
              /\ Len(gs) > 1 => r.text = select \o <<T("WHERE")>> \o Parens(joined)
              /\ HoldsNothing(conds, first) =>
                    r = Select_sql(stmts, [conds EXCEPT ![root].conds = Tail(@)], 1)
              /\ Len(conds[root].conds) = 1 =>
                    r.text = select \o (IF gs = <<>> THEN <<>> ELSE <<T("WHERE")>> \o gs[1])

\* the statement rendered two groups opened by where_or and where_and, each
\* with a predicate, after an implicit group left empty
C9_Witness ==
    /\ out.kind = "stmt_sql" /\ out.err = ""
    /\ Len(conds[stmts[1].root].conds) = 3
    /\ HoldsNothing(conds, conds[stmts[1].root].conds[1])
    /\ conds[stmts[1].root].predicate = "OR"
    /\ Text(out.text) = <<"SELECT", "*", "FROM", "t1", "WHERE",
                          "(", "^c1^", "=", "1", "OR", "^c2^", "=", "1", ")">>

(***************************************************************************)
(* C10.  Active condition.  The root of a statement always has a group,    *)
(* and the active condition is the group opened last.  A statement-level   *)
(* call either opens a group, which becomes the active condition, empty,   *)
(* and changes no group opened before, or adds a predicate to the active   *)
(* condition and changes nothing else.                                     *)
(***************************************************************************)
ActiveDefined ==
    LET root == stmts[1].root
    IN  /\ Len(conds[root].conds) >= 1
        /\ active(1) = conds[root].conds[Len(conds[root].conds)]
        /\ active(1) \in DOMAIN conds /\ active(1) # root

ActiveStep ==
    LET root == stmts[1].root
        a == active(1)
    IN  /\ \A c \in DOMAIN conds : c \notin {root, a} => conds'[c] = conds[c]
        /\ IF Len(conds') > Len(conds)
           THEN /\ Len(conds') = Len(conds) + 1
                /\ conds'[root] = [conds[root] EXCEPT !.conds = Append(@, Len(conds'))]
                /\ where_cond(conds', root) = Len(conds')
                /\ HoldsNothing(conds', Len(conds'))
                /\ conds'[a] = conds[a]
           ELSE /\ Len(conds') = Len(conds)
                /\ conds'[root] = conds[root]
                /\ where_cond(conds', root) = a

Parameterizable(v) == v.t \in {"str", "datetime", "date", "time", "object"}

\* the scalars of a value, in order
Scalars(v) == IF IsSequence(v) THEN v.items ELSE <<v>>

\* the entry the claim routes scalar v to, and what goes to the param list
Routed(st, v, sink) ==
    LET text == pickle(v).text
    IN  IF sink /\ st.placeholder # NoPlaceholder /\ Parameterizable(v)
        THEN [inline |-> <<Hole(st.placeholder, text)>>, params |-> <<text>>]
        ELSE IF Parameterizable(v) /\ st.quote_all_values
        THEN [inline |-> <<T("'" \o EscapeQuotes(text) \o "'")>>, params |-> <<>>]
        ELSE [inline |-> <<T(text)>>, params |-> <<>>]

C12_Routing ==
    (out.kind = "parameterize" /\ out.inline0.given) =>
        LET st == stmts[out.stmt]
            vs == Scalars(out.value)
            to == [i \in DOMAIN vs |-> Routed(st, vs[i], out.params0.given)]
        IN  /\ out.err = ""
            /\ out.inline.given
            /\ out.inline.items = out.inline0.items \o Flatten([i \in DOMAIN vs |-> to[i].inline])
            /\ out.params.given = out.params0.given
            /\ out.params.items = out.params0.items \o Flatten([i \in DOMAIN vs |-> to[i].params])
            /\ \A i \in DOMAIN vs :
                  ~Parameterizable(vs[i]) =>
                      /\ to[i].params = <<>>
                      /\ to[i].inline = <<T(pickle(vs[i]).text)>>
                      /\ pickle(vs[i]).text \in {"NULL", "1", "0", "7", "1.5"}

\* [None, "it's", 'a'] went to lists that held an entry each: NULL inlined,
\* the two texts bound in order under the custom placeholder
C12_Witness ==
    /\ out.kind = "parameterize" /\ out.err = ""
    /\ out.value = VList(<<VNull, VStr("it's"), VStr("a")>>)
    /\ Text(out.inline.items) = <<"x", "NULL", "%s", "%s">>
    /\ out.params.items = <<"p0", "it's", "a">>

(***************************************************************************)
(* C17.  Nesting levels.  After any sequence of add_cond, where_and and    *)
(* where_or calls that builds trees, a condition attached to nothing has   *)
(* nesting_level 0 and every other condition has its parent's plus one,    *)
(* whether a condition was attached before or after its own subconditions. *)
(***************************************************************************)
C17_NestingLevels ==
    \A c \in DOMAIN conds :
        /\ Cardinality(Parents(conds, c)) <= 1
        /\ Parents(conds, c) = {} => conds[c].nesting_level = 0
        /\ \A p \in Parents(conds, c) : conds[c].nesting_level = conds[p].nesting_level + 1

\* a chain of three conditions created on their own and attached to one
\* another with add_cond(cond), levels 0, 1 and 2
C17_Witness ==
    \E c1, c2, c3 \in DOMAIN conds :
        /\ c1 > 2 /\ c2 > 2 /\ c3 > 2
        /\ Parents(conds, c1) = {} /\ conds[c1].conds = <<c2>> /\ conds[c2].conds = <<c3>>
        /\ conds[c1].nesting_level = 0
        /\ conds[c2].nesting_level = 1
        /\ conds[c3].nesting_level = 2

(***************************************************************************)
(* C13.  Raw values and their bind params.  As stated, for every           *)
(* condition and every list given: rendering its raw-value predicates      *)
(* emits, for each, the quoted field, the operator and the raw text as     *)
(* written, and appends to the list the pickled bind params of each, in    *)
(* order, whether or not the statement has a placeholder configured.       *)
(***************************************************************************)
\* the pickled bind params of raw-value predicates, in order
BindParams(values_raw) ==
    Flatten([i \in DOMAIN values_raw |->
                IF values_raw[i].params.given
                THEN [j \in DOMAIN values_raw[i].params.items |->
                         pickle(values_raw[i].params.items[j]).text]
                ELSE <<>>])

\* the fragments of raw-value predicates: quoted field, operator, raw text
RawFragments(st, values_raw) ==
    [i \in DOMAIN values_raw |->
        <<T(quote_col_ref(st, values_raw[i].field)), T(values_raw[i].op)>>
        \o values_raw[i].value]

C13_RawParamsAnyConfig ==
    \A c \in DOMAIN conds : \A pv \in ParamLists :
        LET r == sql_values_raw(stmts[conds[c].stmt], conds[c].values_raw, 1,
                                [sql |-> <<>>, pv |-> pv, err |-> ""])
        IN  /\ r.err = ""
            /\ r.sql = RawFragments(stmts[conds[c].stmt], conds[c].values_raw)
            /\ r.pv = pv \o BindParams(conds[c].values_raw)

(***************************************************************************)
(* C13, amended.  The raw text is emitted as written after the quoted      *)
(* field and the operator under every configuration; the pickled bind      *)
(* params are appended, in order, when the statement has a placeholder     *)
(* configured, and none is appended when the placeholder is disabled.      *)
(***************************************************************************)
C13_RawParams ==
    \A c \in DOMAIN conds : \A pv \in ParamLists :
        LET st == stmts[conds[c].stmt]
            r == sql_values_raw(st, conds[c].values_raw, 1,
                                [sql |-> <<>>, pv |-> pv, err |-> ""])
        IN  /\ r.err = ""
            /\ r.sql = RawFragments(st, conds[c].values_raw)
            /\ r.pv = IF st.placeholder # NoPlaceholder
                      THEN pv \o BindParams(conds[c].values_raw)
                      ELSE pv

\* the active OR group rendered PASSWORD(?) and BETWEEN ? AND ? after a list
\* that held one param: three params appended in the order written
C13_Witness ==
    /\ out.kind = "sql" /\ out.err = "" /\ ~out.none
    /\ out.given = <<"p0">>
    /\ out.pv = <<"p0", "pw", "1", "x">>
    /\ Text(out.text) = <<"(", "^c1^", "=", "PASSWORD", "(", "?", ")", "OR",
                          "^c2^", "BETWEEN", "?", "AND", "?", ")">>

(***************************************************************************)
(* C14.  A value predicate whose value is a sequence of no element         *)
(* renders: sql() returns a fragment for its condition and raises nothing. *)
(***************************************************************************)
C14_EmptySequenceRenders ==
    \A c \in DOMAIN conds : \A pv \in ParamLists :
        (\E i \in DOMAIN conds[c].values : conds[c].values[i].value = VList(<<>>))
            => WhereCondition_sql(stmts, conds, c, pv).err = ""

(***************************************************************************)
(* C15.  where_raw_value raises ValueError whenever a raw value is None,   *)
(* called with a field and called with a mapping, and a call that raises   *)
(* leaves the predicates of every condition as they were.                  *)
(***************************************************************************)
\* a raw value of the call is None
NoneGiven(e) ==
    IF e.fd.dict THEN \E i \in DOMAIN e.fd.items : ~e.fd.items[i].v.given
    ELSE ~e.raw.given

RawValueStep(e) ==
    WhereCondition_where_raw_value_call(active(1), e.fd, e.raw, e.op, e.params)
        => /\ NoneGiven(e) <=> (out'.kind = "raised" /\ out'.err = "ValueError")
           /\ out'.kind = "raised" => conds' = conds

C15_NoneRaises == [][\A e \in RawCalls : RawValueStep(e)]_vars


(***************************************************************************)
(* C11.  Statement output contract.  For a statement of any class whose    *)
(* sql() returned: with a placeholder configured the result is a pair of   *)
(* text and params, the params being None when the statement holds         *)
(* nothing that binds and a non-empty sequence otherwise; with the         *)
(* placeholder disabled the result is the text alone.                      *)
(***************************************************************************)
\* a value one of whose scalars is bound to a placeholder
Binds(v) == \E i \in DOMAIN Scalars(v) : Parameterizable(Scalars(v)[i])

\* a raw value given bind params
BindsRaw(e) == e.params.given /\ e.params.items # <<>>

\* statement s holds a value, a raw value, a row or a predicate that binds
HoldsBound(s) ==
    \/ \E i \in DOMAIN stmts[s].values : Binds(stmts[s].values[i].value)
    \/ \E i \in DOMAIN stmts[s].values_raw : BindsRaw(stmts[s].values_raw[i])
    \/ stmts[s].batch_values # <<>>
    \/ \E c \in DOMAIN conds :
          \/ \E i \in DOMAIN conds[c].values : Binds(conds[c].values[i].value)
          \/ \E i \in DOMAIN conds[c].values_raw : BindsRaw(conds[c].values_raw[i])

C11_OutputContract ==
    (out.kind = "stmt_sql" /\ out.err = "") =>
        IF stmts[out.stmt].placeholder # NoPlaceholder
        THEN /\ out.tuple
             /\ out.params.given <=> HoldsBound(out.stmt)
             /\ out.params.given => out.params.items # <<>>
             /\ ~out.params.given => out.params = None
        ELSE ~out.tuple /\ out.params = None

\* an Update returned its text and two params, the value's before the raw
\* predicate's
C11_Witness ==
    /\ out.kind = "stmt_sql" /\ out.err = "" /\ out.tuple
    /\ stmts[out.stmt].kind = "Update"
    /\ Text(out.text) = <<"UPDATE", "t1", "SET", "^c1^", "=", "?", "WHERE",
                          "^c1^", "=", "PASSWORD", "(", "?", ")">>
    /\ out.params = Some(<<"a", "pw">>)

(***************************************************************************)
(* C16.  Rendering never mutates the builder.  Every sql() call, of a      *)
(* statement or of a condition, returning or raising, leaves the statement *)
(* and every condition as they were, so that rendering again returns the   *)
(* same; a condition's sql(params) that returns keeps what params held and *)
(* appends to it.                                                          *)
(***************************************************************************)
\* what sql() of statement s returns in the state with statements S and
\* conditions C, as out records it
Render(S, C, s) ==
    CASE S[s].kind \in {"Insert", "Replace"} -> Insert_sql(S[s])
      [] S[s].kind = "Update" -> Update_sql(S, C, s)
      [] S[s].kind = "Delete" -> Delete_sql(S, C, s)
      [] S[s].kind = "Select" -> Select_sql(S, C, s)
      [] S[s].kind = "Union" -> Union_sql(S[s])
      [] OTHER -> Lock_get_lock(S[s])

RenderStep ==
    /\ out'.kind = "stmt_sql" =>
          /\ stmts' = stmts /\ conds' = conds
          /\ out' = [kind |-> "stmt_sql", stmt |-> out'.stmt] @@ Render(stmts', conds', out'.stmt)
    /\ out'.kind = "sql" =>
          /\ stmts' = stmts /\ conds' = conds
          /\ out'.err = "" => KeepsGiven(out'.given, out'.pv)
          /\ out' = [kind |-> "sql", cond |-> out'.cond, given |-> out'.given]
                    @@ WhereCondition_sql(stmts', conds', out'.cond, out'.given)

C16_RenderKeepsBuilder == [][RenderStep]_vars

\* an Insert returned a statement for two values and left no column behind
C16_Witness ==
    /\ out.kind = "stmt_sql" /\ out.err = ""
    /\ stmts[out.stmt].kind = "Insert"
    /\ Len(stmts[out.stmt].values) = 2 /\ stmts[out.stmt].columns = <<>>
    /\ Text(out.text) = <<"INSERT", "INTO", "t1", "(", "^c1^", ",", "^c2^", ")",
                          "VALUES", "(", "?", ",", "7", ")">>

(***************************************************************************)
(* C18.  Unqualified-delete guard.  For a Delete with                      *)
(* allow_unqualified_delete false, over one table or several, sql() raises *)
(* ValueError or returns a statement in which WHERE is followed by a       *)
(* condition that is not empty.                                            *)
(***************************************************************************)
\* the text holds WHERE, and a token after it
Qualified(toks) == \E i \in DOMAIN toks : toks[i].s = "WHERE" /\ i < Len(toks)

C18_UnqualifiedGuard ==
    (/\ out.kind = "stmt_sql"
     /\ stmts[out.stmt].kind = "Delete"
     /\ ~stmts[out.stmt].allow_unqualified_delete)
        => \/ out.err = "ValueError"
           \/ out.err = "" /\ Qualified(out.text)

(***************************************************************************)
(* C19.  Insert value sources are mutually exclusive.  sql() of an Insert  *)
(* or Replace returns only if a table is set and exactly one source is:    *)
(* values (set_value, set_raw_value) with no columns, batch values with    *)
(* columns, or a SELECT with columns.  It raises ValueError with no table, *)
(* with no source, with two sources, with values and columns, and with     *)
(* batch values or a SELECT and no columns.                                *)
(***************************************************************************)
\* the sources statement st has set
Sources(st) ==
    (IF st.values # <<>> \/ st.values_raw # <<>> THEN {"values"} ELSE {})
    \cup (IF st.batch_values # <<>> THEN {"batch"} ELSE {})
    \cup (IF st.select.given THEN {"select"} ELSE {})

\* the states the claim lists as failing
Misconfigured(st) ==
    \/ st.table_name = ""
    \/ Cardinality(Sources(st)) # 1
    \/ "values" \in Sources(st) /\ st.columns # <<>>
    \/ "values" \notin Sources(st) /\ st.columns = <<>>

C19_InsertSources ==
    (out.kind = "stmt_sql" /\ stmts[out.stmt].kind \in {"Insert", "Replace"}) =>
        /\ out.err = "" => ~Misconfigured(stmts[out.stmt])
        /\ Misconfigured(stmts[out.stmt]) => out.err = "ValueError"

\* sql() raised ValueError for an Insert with a table, values and a row
C19_Witness ==
    /\ out.kind = "stmt_sql" /\ out.err = "ValueError"
    /\ stmts[out.stmt].kind = "Insert"
    /\ stmts[out.stmt].table_name = "t1"
    /\ Sources(stmts[out.stmt]) = {"values", "batch"}
    /\ stmts[out.stmt].columns = <<>>

(***************************************************************************)
(* C20.  Batch insert.  With a placeholder configured the VALUES clause    *)
(* holds one placeholder per column and the params hold one entry per row, *)
(* in the order the rows were added over all set_batch_value calls, each   *)
(* entry every value of its row, pickled, in order, whatever its type.     *)
(* With the placeholder disabled every row is inlined as a parenthesized   *)
(* tuple of its own, in the same order.                                    *)
(***************************************************************************)
\* the text up to VALUES
BatchHead(st) ==
    <<T(IF st.replace THEN "REPLACE" ELSE "INSERT"), T("INTO"), T(st.table_name), T("(")>>
    \o Join([i \in DOMAIN st.columns |-> <<T(Backtick \o st.columns[i] \o Backtick)>>],
            <<T(",")>>)
    \o <<T(")"), T("VALUES")>>

\* the values of a row, pickled
RowParams(row) == [j \in DOMAIN row.items |-> pickle(row.items[j]).text]

\* a row inlined: ( v1 , v2 , ... ), each value as the parameterizer routes
\* it without a param list
RowTuple(st, row) ==
    Parens(Join([j \in DOMAIN row.items |-> Routed(st, row.items[j], FALSE).inline],
                <<T(",")>>))

BatchRendered ==
    (/\ out.kind = "stmt_sql" /\ out.err = ""
     /\ stmts[out.stmt].kind \in {"Insert", "Replace"}
     /\ stmts[out.stmt].batch_values # <<>>) =>
        LET st == stmts[out.stmt]
            rows == st.batch_values
        IN  IF st.placeholder # NoPlaceholder
            THEN /\ out.text = BatchHead(st)
                               \o Parens(Join([i \in DOMAIN st.columns |-> <<T(st.placeholder)>>],
                                              <<T(",")>>))
                 /\ out.params = Some([i \in DOMAIN rows |-> RowParams(rows[i])])
            ELSE /\ out.text = BatchHead(st)
                               \o Join([i \in DOMAIN rows |-> RowTuple(st, rows[i])], <<T(",")>>)
                 /\ out.params = None

\* set_batch_value adds its rows after the rows held, in the order given
BatchStep ==
    \A values \in BatchValues :
        Insert_set_batch_value(1, values) =>
            stmts'[1].batch_values = stmts[1].batch_values \o values

C20_BatchInsert == [](BatchRendered) /\ [][BatchStep]_vars

\* two columns and two rows: (?, ?) and one entry per row, NULL and the
\* boolean among the params
C20_Witness ==
    /\ out.kind = "stmt_sql" /\ out.err = "" /\ out.tuple
    /\ stmts[out.stmt].columns = <<"c1", "c2">>
    /\ Text(out.text) = <<"INSERT", "INTO", "t1", "(", "^c1^", ",", "^c2^", ")",
                          "VALUES", "(", "?", ",", "?", ")">>
    /\ out.params = Some(<< <<"NULL", "b">>, <<"c", "1">> >>)


(***************************************************************************)
(* C30.  expr_count and has_conds agree with rendering: for every          *)
(* condition of a reachable tree whose sql() returns, expr_count is the    *)
(* number of fragments sql() joins, and has_conds is true exactly when     *)
(* sql() returns a fragment that is not empty, false exactly when it       *)
(* returns None.                                                           *)
(***************************************************************************)
C30_CountsAgree ==
    \A c \in DOMAIN conds :
        LET acc == sql_fragments(stmts, conds, c, <<>>)
        IN  acc.err = "" =>
               /\ expr_count(conds, c) = Len(acc.sql)
               /\ has_conds(conds, c) <=> sql_return(conds, c, acc).text # <<>>
               /\ ~has_conds(conds, c) <=> sql_return(conds, c, acc).none


(***************************************************************************)
(* C28.  With the placeholder disabled on a statement no bound parameter   *)
(* is accumulated while it renders: whatever its conditions hold, bind     *)
(* params and subqueries with a placeholder of their own included, the     *)
(* parameter list is empty when the root condition has rendered, and       *)
(* sql() does not fail on its closing assertion.                           *)
(***************************************************************************)
C28_DisabledAccumulatesNothing ==
    \A s \in DOMAIN stmts :
        stmts[s].placeholder = NoPlaceholder =>
            /\ WhereCondition_sql(stmts, conds, stmts[s].root, <<>>).pv = <<>>
            /\ Select_sql(stmts, conds, s).err # "AssertionError"


(***************************************************************************)
(* C27.  parameterize_values called with both sinks absent fails with      *)
(* ValueError for every value, scalar or sequence, and leaves both sinks   *)
(* absent.                                                                 *)
(***************************************************************************)
C27_BothAbsentFails ==
    (out.kind = "parameterize" /\ ~out.inline0.given /\ ~out.params0.given) =>
        /\ out.err = "ValueError"
        /\ ~out.inline.given
        /\ ~out.params.given


(***************************************************************************)
(* C26.  nesting_level has no effect on rendering: a tree and the same     *)
(* tree with other nesting_level values on its conditions (the same        *)
(* predicates, subconditions, AND/OR and negation) return the same         *)
(* fragment from sql() and leave the same parameter list, for every        *)
(* condition of the tree and every list given.                             *)
(***************************************************************************)
\* the arena with nesting_level f[c] on every condition c
Releveled(C, f) == [c \in DOMAIN C |-> [C[c] EXCEPT !.nesting_level = f[c]]]

\* other levels for the conditions of C: 0 everywhere, one more than each
\* has, and 0 where it is not 0 and 3 where it is
Relevelings(C) ==
    { [c \in DOMAIN C |-> 0],
      [c \in DOMAIN C |-> C[c].nesting_level + 1],
      [c \in DOMAIN C |-> IF C[c].nesting_level = 0 THEN 3 ELSE 0] }

C26_NestingLevelInert ==
    \A f \in Relevelings(conds) : \A c \in DOMAIN conds : \A pv \in ParamLists :
        WhereCondition_sql(stmts, Releveled(conds, f), c, pv)
            = WhereCondition_sql(stmts, conds, c, pv)

\* a condition at level 2 holding two predicates, one of them with a bound
\* value, below the implicit group; it renders in parentheses, and the root
\* renders as it does
C26_Witness ==
    \E c \in DOMAIN conds :
        /\ conds[c].nesting_level = 2
        /\ ~conds[c].negate
        /\ Len(conds[c].values) + Len(conds[c].raw_exprs) = 2
        /\ conds[c].values # <<>>
        /\ \E p \in Parents(conds, c) : conds[p].nesting_level = 1
        /\ Head(WhereCondition_sql(stmts, conds, c, <<>>).text) = T("(")
        /\ WhereCondition_sql(stmts, conds, stmts[1].root, <<>>).text
              = WhereCondition_sql(stmts, conds, c, <<>>).text
        /\ WhereCondition_sql(stmts, conds, stmts[1].root, <<>>).pv # <<>>


(***************************************************************************)
(* C25.  Raw expressions, as stated.  where_expr with a list registers     *)
(* one raw expression per element, in order and without bind params,       *)
(* whatever expr_params it was given; with one expression it registers the *)
(* expression with its expr_params.  A condition renders every raw         *)
(* expression it holds, a repeated one as often as it is held, and appends *)
(* the expr_params of each as they were given, not pickled, under every    *)
(* configuration.                                                          *)
(***************************************************************************)
\* what a where_expr call registers
Registered(e) ==
    IF e.el.list
    THEN [i \in DOMAIN e.el.items |-> [expr |-> e.el.items[i], params |-> None]]
    ELSE <<[expr |-> e.el.expr, params |-> e.params]>>

ExprStep(e) ==
    WhereCondition_where_expr_call(active(1), e.el, e.params)
        => conds' = [conds EXCEPT ![active(1)].raw_exprs = @ \o Registered(e)]

\* the expr_params of the raw expressions, in order, as they were given
ExprParams(raw_exprs) ==
    Flatten([i \in DOMAIN raw_exprs |->
                IF raw_exprs[i].params.given THEN raw_exprs[i].params.items ELSE <<>>])

\* the loop over self._raw_exprs of a condition of statement st leaves the
\* expressions as fragments and, when bound, their params after pv
ExprsRendered(st, raw_exprs, pv, bound) ==
    LET r == sql_raw_exprs(st, raw_exprs, 1, [sql |-> <<>>, pv |-> pv, err |-> ""])
    IN  /\ r.err = ""
        /\ r.sql = [i \in DOMAIN raw_exprs |-> raw_exprs[i].expr]
        /\ r.pv = IF bound THEN pv \o ExprParams(raw_exprs) ELSE pv

C25_RawExprsAnyConfig ==
    /\ [](\A c \in DOMAIN conds : \A pv \in ParamLists :
             ExprsRendered(stmts[conds[c].stmt], conds[c].raw_exprs, pv, TRUE))
    /\ [][\A e \in ExprCalls : ExprStep(e)]_vars

(***************************************************************************)
(* C25, amended.  The same, the expr_params being appended when the        *)
(* statement has a placeholder configured and none being appended when the *)
(* placeholder is disabled.                                                *)
(***************************************************************************)
C25_RawExprs ==
    /\ [](\A c \in DOMAIN conds : \A pv \in ParamLists :
             ExprsRendered(stmts[conds[c].stmt], conds[c].raw_exprs, pv,
                           stmts[conds[c].stmt].placeholder # NoPlaceholder))
    /\ [][\A e \in ExprCalls : ExprStep(e)]_vars

\* an OR group that holds a = ? bound to 1 and then a = ? twice from a list
\* given (1, 'e') rendered after a list that held one param: three
\* fragments, one param appended, the int as it was given
C25_Witness ==
    /\ out.kind = "sql" /\ out.err = "" /\ ~out.none
    /\ out.given = <<"p0">>
    /\ conds[out.cond].predicate = "OR"
    /\ conds[out.cond].raw_exprs
          = <<[expr |-> <<T("a = ?")>>, params |-> Some(<<VInt(1)>>)],
              [expr |-> <<T("a = ?")>>, params |-> None],
              [expr |-> <<T("a = ?")>>, params |-> None]>>
    /\ Text(out.text) = <<"(", "a = ?", "OR", "a = ?", "OR", "a = ?", ")">>
    /\ Len(out.pv) = 2
    /\ out.pv[2] = VInt(1)


(***************************************************************************)
(* C29.  Mapping form equals repeated single-field form: where_value and   *)
(* where_raw_value called with a mapping leave every condition as one      *)
(* call of the single-field form per entry leaves it, in mapping order,    *)
(* with the operator of the call and, for where_raw_value, its             *)
(* value_params.                                                           *)
(***************************************************************************)
\* the arena after where_value(f, v, operator) for each item from i on
RECURSIVE RepeatedValue(_, _, _, _, _)
RepeatedValue(C, c, items, i, operator) ==
    IF i > Len(items) THEN C
    ELSE RepeatedValue(where_value_call(C, c, Field(items[i].f), items[i].v, operator),
                       c, items, i + 1, operator)

\* the arena after where_raw_value(f, v, operator, value_params) for each
\* item from i on
RECURSIVE RepeatedRawValue(_, _, _, _, _, _)
RepeatedRawValue(C, c, items, i, operator, value_params) ==
    IF i > Len(items) THEN C
    ELSE RepeatedRawValue(
             where_raw_value_call(C, c, Field(items[i].f), items[i].v,
                                  operator, value_params).conds,
             c, items, i + 1, operator, value_params)

ValueMapStep(e) ==
    (e.fd.dict /\ WhereCondition_where_value_call(active(1), e.fd, e.value, e.op))
        => conds' = RepeatedValue(conds, active(1), e.fd.items, 1, e.op)

RawValueMapStep(e) ==
    (e.fd.dict /\ WhereCondition_where_raw_value_call(active(1), e.fd, e.raw, e.op, e.params))
        => conds' = RepeatedRawValue(conds, active(1), e.fd.items, 1, e.op, e.params)

C29_MappingIsRepeated ==
    [][(\A e \in ValueCalls : ValueMapStep(e)) /\ (\A e \in RawMapCalls : RawValueMapStep(e))]_vars

(***************************************************************************)
(* C21.  Calling a statement is rendering it: for a Select, Delete, Insert *)
(* or Update with a placeholder configured, in every builder state, stmt() *)
(* returns the pair that stmt.sql() returns and raises exactly when        *)
(* stmt.sql() raises.                                                      *)
(***************************************************************************)
\* the call recorded in out agrees with sql() of the same statement
CallIsSql(r) ==
    /\ (out.err = "") <=> (r.err = "")
    /\ out.err = "" => /\ r.tuple /\ out.tuple
                       /\ out.text = r.text
                       /\ out.params = r.params

CallOf(kinds) ==
    /\ out.kind = "call"
    /\ stmts[out.stmt].kind \in kinds
    /\ stmts[out.stmt].placeholder # NoPlaceholder

C21_CallIsSql ==
    CallOf({"Select", "Delete", "Insert", "Update"})
        => CallIsSql(Render(stmts, conds, out.stmt))

\* the classes that define sqlp: the call is sql()
C21_CallIsSqlGivenSqlp ==
    CallOf({"Insert", "Update"}) => CallIsSql(Render(stmts, conds, out.stmt))

\* the classes that define sql alone: the call raises whatever sql() does
C21_CallRaisesGivenSql ==
    CallOf({"Select", "Delete"}) => out.err = "NotImplementedError"

(***************************************************************************)
(* C22.  A Union of n >= 1 statements, texts or Select objects, renders    *)
(* the n statements in insertion order, each in parentheses, with exactly  *)
(* n - 1 separators, UNION ALL when distinct is False and UNION otherwise, *)
(* and returns the bound params of the Select objects in the same order,   *)
(* query options, ORDER BY and LIMIT set or not; with no statement sql()   *)
(* raises ValueError.                                                      *)
(***************************************************************************)
UnionSeparator(st) == T(IF st.distinct = "False" THEN "UNION ALL" ELSE "UNION")

\* (s1) SEP (s2) ... SEP (sn)
UnionBody(st) ==
    Join([i \in DOMAIN st.selects |-> Parens(st.selects[i].items)], <<UnionSeparator(st)>>)

\* the values bound by the statements, in order
UnionParams(st) ==
    Flatten([i \in DOMAIN st.selects |->
                Flatten([j \in DOMAIN st.selects[i].items |-> st.selects[i].items[j].bind])])

IsSeparator(t) == t.s \in {"UNION", "UNION ALL"}

IsInfix(a, b) == \E i \in 0..(Len(b) - Len(a)) : SubSeq(b, i + 1, i + Len(a)) = a

\* sql() of the Union st returned r as the claim has it
UnionRendered(st, r) ==
    IF st.selects = <<>> THEN r.err = "ValueError"
    ELSE /\ r.err = ""
         /\ IsInfix(UnionBody(st), r.text)
         /\ Len(SelectSeq(r.text, IsSeparator)) = Len(st.selects) - 1
         /\ r.params = (IF UnionParams(st) # <<>> THEN Some(UnionParams(st)) ELSE None)

UnionSql(S) ==
    /\ out.kind = "stmt_sql"
    /\ stmts[out.stmt].kind = "Union"
    /\ stmts[out.stmt].placeholder # NoPlaceholder
    /\ stmts[out.stmt] \in S

C22_UnionRendering ==
    UnionSql({stmts[out.stmt]}) => UnionRendered(stmts[out.stmt], out)

OfText(st) == \A i \in DOMAIN st.selects : ~st.selects[i].object

\* every statement a text: the query options bring one separator more
C22_UnionOfTexts ==
    UnionSql({st \in {stmts[out.stmt]} : OfText(st)}) => UnionRendered(stmts[out.stmt], out)

\* every statement a text and no query option: as stated
C22_UnionOfTextsNoOptions ==
    UnionSql({st \in {stmts[out.stmt]} : OfText(st) /\ st.query_options = <<>>})
        => UnionRendered(stmts[out.stmt], out)

\* a Select object among the statements: sql() raises
C22_UnionOfObjectsRaises ==
    UnionSql({st \in {stmts[out.stmt]} : ~OfText(st)}) => out.err = "NotImplementedError"

\* with query options and texts there are as many separators as statements
C22_OptionsSeparate ==
    UnionSql({st \in {stmts[out.stmt]} :
                 OfText(st) /\ st.query_options # <<>> /\ st.selects # <<>>})
        => /\ out.err = ""
           /\ Len(SelectSeq(out.text, IsSeparator)) = Len(stmts[out.stmt].selects)
           /\ out.text[Len(stmts[out.stmt].query_options) + 1] = UnionSeparator(stmts[out.stmt])

(***************************************************************************)
(* C23.  INSERT ... SELECT given a Select object: when the Select renders  *)
(* with bound params and select_allow_placeholders is false, Insert.sql()  *)
(* raises ValueError; otherwise the text of the Select follows the column  *)
(* list and its bound params are the params of the Insert, in order.       *)
(***************************************************************************)
\* sql() of an Insert whose only source is a Select object, columns named
InsertOfSelectObject ==
    /\ out.kind = "stmt_sql"
    /\ stmts[out.stmt].kind = "Insert"
    /\ stmts[out.stmt].placeholder # NoPlaceholder
    /\ stmts[out.stmt].select.object
    /\ stmts[out.stmt].columns # <<>>
    /\ stmts[out.stmt].values = <<>> /\ stmts[out.stmt].values_raw = <<>>
    /\ stmts[out.stmt].batch_values = <<>>

\* the values the Select object binds, in order
SelectParams(select) == Flatten([j \in DOMAIN select.items |-> select.items[j].bind])

C23_InsertSelectObject ==
    InsertOfSelectObject =>
        LET st == stmts[out.stmt]
        IN  IF SelectParams(st.select) # <<>> /\ ~st.select_allow_placeholders
            THEN out.err = "ValueError"
            ELSE /\ out.err = ""
                 /\ out.text = InsertHeader(st) \o ColumnsClause(st, st.columns) \o st.select.items
                 /\ out.params = (IF SelectParams(st.select) # <<>>
                                  THEN Some(SelectParams(st.select)) ELSE None)

\* whatever the Select binds and whatever select_allow_placeholders is
C23_InsertSelectObjectRaises ==
    InsertOfSelectObject => out.err = "NotImplementedError"

(***************************************************************************)
(* C24.  Update.sql() raises ValueError whenever ORDER BY or LIMIT is set  *)
(* and tables plus joins are more than one; Delete.sql() raises ValueError *)
(* whenever ORDER BY or LIMIT is set and there is more than one table or   *)
(* any join; with exactly one table and no join, ORDER BY and LIMIT are    *)
(* rendered after the WHERE clause, in that order.                         *)
(***************************************************************************)
MultiTable(st) ==
    IF st.kind = "Update" THEN Len(st.table_names) + Len(st.join_refs) > 1
    ELSE Len(st.table_names) > 1 \/ Len(st.join_refs) > 0

OrderOrLimit(st) == st.orderby_conds # <<>> \/ st.limit # 0

\* text ends with tail, and every WHERE of it comes before tail
EndsAfterWhere(text, tail) ==
    /\ Len(text) >= Len(tail)
    /\ SubSeq(text, Len(text) - Len(tail) + 1, Len(text)) = tail
    /\ \A i \in DOMAIN text : text[i] = T("WHERE") => i <= Len(text) - Len(tail)

\* sql() of the Update or Delete st returned r as the claim has it
MultiTableChecked(st, r) ==
    IF MultiTable(st)
    THEN OrderOrLimit(st) => r.err = "ValueError"
    ELSE (Len(st.table_names) = 1 /\ r.err = "") => EndsAfterWhere(r.text, OrderLimit(st))

UpdateOrDeleteSql ==
    /\ out.kind = "stmt_sql"
    /\ stmts[out.stmt].kind \in {"Update", "Delete"}

C24_MultiTable == UpdateOrDeleteSql => MultiTableChecked(stmts[out.stmt], out)

\* a condition of the statement holds a predicate on an empty sequence, whose
\* rendering raises IndexError
HoldsEmptySequence(st) ==
    \E c \in DOMAIN conds : \E i \in DOMAIN conds[c].values :
        conds[c].values[i].value = VList(<<>>)

\* no predicate on an empty sequence: as stated
C24_MultiTableGivenWhereRenders ==
    (UpdateOrDeleteSql /\ ~HoldsEmptySequence(stmts[out.stmt]))
        => MultiTableChecked(stmts[out.stmt], out)

\* with one, the WHERE clause raises before ORDER BY and LIMIT are looked at,
\* unless an earlier check raised
C24_WhereRaisesFirst ==
    (UpdateOrDeleteSql /\ HoldsEmptySequence(stmts[out.stmt])
        /\ (stmts[out.stmt].kind = "Update" => stmts[out.stmt].values # <<>>))
        => out.err = "IndexError"

====
